---- MODULE Spec2Model ----
(***************************************************************************)
(* TailGrant: the durable grant-orchestration engine.                      *)
(*                                                                         *)
(* Four cooperating workflows are modelled from the Go sources:            *)
(*   GrantWorkflow            (internal/grant/workflow.go)                 *)
(*   ApprovalWorkflow         (approval gate, child of GrantWorkflow)      *)
(*   DeviceTagManagerWorkflow (one per device, serialises tag writes)      *)
(*   ReconciliationWorkflow   (periodic sweep over the device list)        *)
(* together with the environment that drives them: the HTTP adapter's      *)
(* signals, the clock, and an external actor editing device tags.          *)
(*                                                                         *)
(* Every workflow runs single-threaded; it is split into one action per    *)
(* suspension point (signal receive, timer, activity call): an activity    *)
(* is a step of its own, and the workflow code that follows it is the      *)
(* step of the next suspension point.  Signal channels are per signal      *)
(* name.  A Selector that is entered with signals already buffered takes   *)
(* the first ready case in the order the cases were added; one that is     *)
(* entered with nothing ready blocks, and the first signal to arrive       *)
(* makes its case the one that runs.  A workflow that returns or           *)
(* continues-as-new discards whatever is still buffered in its channels.   *)
(*                                                                         *)
(* Tags are numbered so that integer order is the order sort.Strings       *)
(* gives: 1 = "tag:a" (grant tag), 2 = "tag:server" (external tag),        *)
(* 3 = "tag:z" (grant tag).                                                *)
(***************************************************************************)
EXTENDS Integers, Sequences, FiniteSets, TLC

VARIABLES
    now,         \* workflow.Now: the clock, in abstract time units
    req,         \* per grant: the GrantRequest and its resolved GrantType
    lpc,         \* per grant: position of its GrantWorkflow
    state,       \* per grant: GrantState (the "status" query result)
    timer,       \* per grant: deadline of the Active-loop timer, or NoTime
    revokeCh,    \* per grant: buffered "revoke" signals
    extendCh,    \* per grant: buffered "extend" signals
    gate,        \* per grant: its ApprovalWorkflow child
    mgr,         \* per device: its DeviceTagManagerWorkflow
    deviceTags,  \* per device: the tag list held by the control plane
    devicePosture, \* per device: the posture attribute keys it carries
    rec,         \* the ReconciliationWorkflow
    budget,      \* environment inputs still to come
    user,        \* per user: role and status held by the control plane
    hist         \* history of signal sends and tag writes (observation only)

vars == <<now, req, lpc, state, timer, revokeCh, extendCh, gate, mgr,
          deviceTags, devicePosture, rec, budget, user, hist>>

-----------------------------------------------------------------------------
(* Bounds of the model *)

MaxTime == 3
MaxDur == 2
\* The largest duration an Extend signal carries (MaxDur + 1 exceeds every
\* maxDuration, so the clamp is exercised).
MaxSignals == 2
MaxExternal == 1
MaxSweeps == 1
MaxWorkers == 2
\* Activity failures the Reconciler meets.
MaxFaults == 1
\* The longest tag list of a device or of a grant given to the tag
\* computation.
MaxLen == 2

(* Program constants, in model time units (one unit = 12h for the gate) *)

\* approvalTimeout = 24 * time.Hour
approvalTimeout == 2
\* const tagManagerContinueAsNewThreshold = 1000
tagManagerContinueAsNewThreshold == 1000

Grants == {"g1", "g2"}
Devices == {"d1"}
Identities == {"u@x", "a@x", "b@x"}
Tags == {1, 2, 3}

NoTime == 0 - 1

RiskLow == 0
RiskMedium == 1
RiskHigh == 2

StatusPendingApproval == "pending_approval"
StatusActive == "active"
StatusExpired == "expired"
StatusRevoked == "revoked"
StatusDenied == "denied"

ActionTag == "tag"
ActionUserRole == "user_role"
ActionUserRestore == "user_restore"

Users == {"u1"}
RoleMember == "member"
RoleAdmin == "admin"
UserActive == "active"
UserSuspended == "suspended"

-----------------------------------------------------------------------------
(* Helpers on sequences *)

Range(s) == {s[i] : i \in DOMAIN s}

Min(S) == CHOOSE x \in S : \A y \in S : x <= y

RECURSIVE SortedSeq(_)
\* The elements of a finite set of numbers in ascending order.
SortedSeq(S) ==
    IF S = {} THEN <<>>
    ELSE LET m == Min(S) IN <<m>> \o SortedSeq(S \ {m})

-----------------------------------------------------------------------------
(* Configuration: grant types *)

\* Posture attribute keys: a key is its prefix and the rest of its name.
KeyP == [prefix |-> "custom:", name |-> "p"]
KeyExt == [prefix |-> "custom:", name |-> "ext"]
PostureKeys == {KeyP, KeyExt}
\* A posture key outside the custom: namespace, set by the control plane.
KeyNode == [prefix |-> "node:", name |-> "os"]

PostureAttribute(key, target) == [key |-> key, value |-> "v", target |-> target]

GrantType(name, tags, maxDuration, riskLevel, approvers) ==
    [name |-> name, action |-> ActionTag, tags |-> tags,
     postureAttributes |-> <<>>, maxDuration |-> maxDuration,
     riskLevel |-> riskLevel, approvers |-> approvers]

GrantRequest(id, requester, target, duration, gt) ==
    [id |-> id, requester |-> requester, requesterNode |-> "",
     targetNodeID |-> target, duration |-> duration, grantType |-> gt]

\* The configured tag grant types of the deployment under study.
TypeA == GrantType("ga", <<1>>, MaxDur, RiskLow, <<>>)
TypeAZ == GrantType("gaz", <<1, 3>>, MaxDur, RiskLow, <<>>)
TypeAdmin(approvers) == GrantType("admin", <<3>>, MaxDur, RiskHigh, approvers)
TypeOps == GrantType("ops", <<1>>, MaxDur, RiskMedium, <<"a@x">>)
\* A grant type that sets a posture attribute on the target device only,
\* and one that sets it together with a tag.
TypePosture ==
    [GrantType("posture", <<>>, MaxDur, RiskLow, <<>>) EXCEPT
        !.postureAttributes = <<PostureAttribute(KeyP, "target")>>]
TypeTagPosture ==
    [GrantType("tagposture", <<1>>, MaxDur, RiskLow, <<>>) EXCEPT
        !.postureAttributes = <<PostureAttribute(KeyP, "target")>>]

\* cmd/tailgrant-worker: the union of the tags of all tag grant types.
allGrantTags == Range(TypeA.tags) \cup Range(TypeAZ.tags) \cup Range(TypeAdmin(<<"a@x">>).tags)

\* cmd/tailgrant-worker: the union of the posture keys of all grant types.
allPostureKeys ==
    {TypePosture.postureAttributes[i].key : i \in DOMAIN TypePosture.postureAttributes}
        \cup {TypeTagPosture.postureAttributes[i].key :
                  i \in DOMAIN TypeTagPosture.postureAttributes}

NoRequest == GrantRequest("", "", "", 0, TypeA)

-----------------------------------------------------------------------------
(* Initial values of the per-instance state *)

GrantState0 ==
    [status |-> StatusPendingApproval, approvedBy |-> "",
     activatedAt |-> NoTime, expiresAt |-> NoTime,
     revokedBy |-> "", revokedAt |-> NoTime, originalRole |-> ""]

\* The users of the tailnet when no user grant has acted.
User0 == [u \in Users |-> [role |-> RoleMember, status |-> UserActive]]

Gate0 ==
    [running |-> FALSE, approveCh |-> <<>>, denyCh |-> <<>>,
     deadline |-> NoTime, decided |-> FALSE, resolvedAt |-> NoTime,
     result |-> [approved |-> FALSE, approvedBy |-> "", deniedBy |-> "", reason |-> ""],
     rejected |-> {},
     \* the case the Selector runs next: "" none chosen, "enter" the first
     \* workflow task of the run is still to come
     sel |-> ""]

\* An empty map[string]GrantAssets.
EmptyMap == [g \in {} |-> 0]

\* DeviceTagManagerState{NodeID: nodeID} with no run in progress.
Mgr0 ==
    [running |-> FALSE, activeGrants |-> EmptyMap, signalCount |-> 0,
     addCh |-> <<>>, removeCh |-> <<>>, syncCh |-> 0,
     pc |-> "select", removedTags |-> <<>>, currentTags |-> <<>>,
     handler |-> "", todo |-> <<>>,
     \* the case the Selector runs next, as in Gate0
     sel |-> ""]

Rec0 ==
    [pc |-> "sleep", devices |-> <<>>, idx |-> 0, sweeps |-> 0,
     stalePostureKeys |-> {}, pending |-> {},
     exists |-> FALSE, existsNow |-> FALSE, instances |-> 1]

Hist0 ==
    [addDelivered |-> [g \in Grants |-> 0],
     removeSent |-> [g \in Grants |-> 0],
     removeFailed |-> [g \in Grants |-> 0],
     droppedAdd |-> {}, droppedRemove |-> {},
     mgrStale |-> [d \in Devices |-> FALSE],
     recStale |-> [d \in Devices |-> FALSE],
     interleaved |-> {},
     approveSent |-> {}, extRemoved |-> {}, lifeSignals |-> {},
     missedDrift |-> {}, cleanedLive |-> {}, cleanedLiveKeys |-> {},
     recDropped |-> {},
     recCleaned |-> {},
     apiReplies |-> {}, apiForwarded |-> {},
     order |-> [d \in Devices |-> <<>>], outOfOrder |-> {},
     recDeletedKeys |-> {},
     initTags |-> [d \in Devices |-> <<>>],
     initPosture |-> [d \in Devices |-> {}],
     failed |-> {}, earlyRevoke |-> {},
     sweepQuiet |-> FALSE, settled |-> FALSE]

-----------------------------------------------------------------------------
(* GrantWorkflow *)

Running(g) ==
    lpc[g] \in {"start", "approval", "activate", "setrole", "arm", "active",
                "revoke", "extend", "revert", "return", "error"}

\* What the arrival of a signal does to the Selector of the run it reaches.
\* A run blocked in sel.Select with nothing buffered (idle) takes the
\* signal's case as the one to run.  A run whose first workflow task is
\* still to come ("enter") has either blocked by now or not; if not, the
\* signal is only buffered and the Select is entered later.  In every other
\* position the signal is only buffered.
Arrivals(sel, idle, kind) ==
    IF ~idle THEN {sel}
    ELSE IF sel = "enter" THEN {kind, "enter"}
    ELSE {kind}

\* The manager waits at sel.Select and none of its channels holds a signal.
MgrBlocked(m) ==
    /\ m.pc = "select"
    /\ m.addCh = <<>>
    /\ m.removeCh = <<>>
    /\ m.syncCh = 0

\* Activities.SignalWithStartDeviceTagManager: start the manager of the
\* device if none is running, then deliver the add-grant signal to it.
\* The manager states that can result.
SignalWithStartDeviceTagManager(m, sig) ==
    IF m.running
    THEN {[m EXCEPT !.sel = s, !.addCh = Append(@, sig)] :
              s \in Arrivals(m.sel, MgrBlocked(m), "add")}
    ELSE {[Mgr0 EXCEPT !.running = TRUE, !.addCh = <<sig>>, !.sel = "enter"]}

AddGrantSignal(g) ==
    [grantID |-> req[g].id,
     tags |-> req[g].grantType.tags,
     postureAttributes |-> req[g].grantType.postureAttributes,
     requesterNodeID |-> req[g].requesterNode]

\* A start that gates only grants above medium risk.
LifeStartGatesHighOnly(g) ==
    /\ lpc[g] = "start"
    /\ IF req[g].grantType.riskLevel > RiskMedium
       THEN /\ gate' = [gate EXCEPT ![g] =
                          [Gate0 EXCEPT !.running = TRUE,
                                        !.deadline = now + approvalTimeout,
                                        !.sel = "enter"]]
            /\ lpc' = [lpc EXCEPT ![g] = "approval"]
       ELSE /\ lpc' = [lpc EXCEPT ![g] = "activate"]
            /\ UNCHANGED gate
    /\ UNCHANGED <<user, now, req, state, timer, revokeCh, extendCh, mgr,
                   deviceTags, rec, budget, hist, devicePosture>>

\* GrantWorkflow up to the approval gate: a grant above low risk starts
\* its ApprovalWorkflow child (whose 24h timer starts with it).
LifeStart(g) ==
    /\ lpc[g] = "start"
    /\ IF req[g].grantType.riskLevel > RiskLow
       THEN /\ gate' = [gate EXCEPT ![g] =
                          [Gate0 EXCEPT !.running = TRUE,
                                        !.deadline = now + approvalTimeout,
                                        !.sel = "enter"]]
            /\ lpc' = [lpc EXCEPT ![g] = "approval"]
       ELSE /\ lpc' = [lpc EXCEPT ![g] = "activate"]
            /\ UNCHANGED gate
    /\ UNCHANGED <<user, now, req, state, timer, revokeCh, extendCh, mgr,
                   deviceTags, rec, budget, hist, devicePosture>>

\* A denial that falls through to the deactivate phase instead of returning.
LifeApprovalResultDenialReverts(g) ==
    /\ lpc[g] = "approval"
    /\ gate[g].decided
    /\ IF ~gate[g].result.approved
       THEN /\ state' = [state EXCEPT ![g].status = StatusDenied]
            /\ lpc' = [lpc EXCEPT ![g] = "revert"]
       ELSE /\ state' = [state EXCEPT ![g].approvedBy = gate[g].result.approvedBy]
            /\ lpc' = [lpc EXCEPT ![g] = "activate"]
    /\ UNCHANGED <<user, now, req, timer, revokeCh, extendCh, gate, mgr,
                   deviceTags, rec, budget, hist, devicePosture>>

\* The child's result arrives: denied ends the workflow with status
\* Denied, approved records approvedBy and goes on to activation.
LifeApprovalResult(g) ==
    /\ lpc[g] = "approval"
    /\ gate[g].decided
    /\ IF ~gate[g].result.approved
       THEN /\ state' = [state EXCEPT ![g].status = StatusDenied]
            /\ lpc' = [lpc EXCEPT ![g] = "done"]
       ELSE /\ state' = [state EXCEPT ![g].approvedBy = gate[g].result.approvedBy]
            /\ lpc' = [lpc EXCEPT ![g] = "activate"]
    /\ UNCHANGED <<user, now, req, timer, revokeCh, extendCh, gate, mgr,
                   deviceTags, rec, budget, hist, devicePosture>>

\* Activate phase of a tag grant, the activity: signal-with-start the
\* device's manager with AddGrant.
LifeAddGrant(g) ==
    /\ lpc[g] = "activate"
    /\ req[g].grantType.action = ActionTag
    /\ LET d == req[g].targetNodeID IN
         \E m \in SignalWithStartDeviceTagManager(mgr[d], AddGrantSignal(g)) :
            mgr' = [mgr EXCEPT ![d] = m]
    /\ lpc' = [lpc EXCEPT ![g] = "arm"]
    /\ hist' = [hist EXCEPT !.addDelivered[g] = @ + 1,
                            !.order[req[g].targetNodeID] = Append(@, "add")]
    /\ UNCHANGED <<user, now, req, state, timer, revokeCh, extendCh, gate,
                   deviceTags, rec, budget, devicePosture>>

\* An activation that arms the grant for the type's maxDuration.
LifeActivateForMaxDuration(g) ==
    /\ lpc[g] = "arm"
    /\ state' = [state EXCEPT ![g].status = StatusActive,
                              ![g].activatedAt = now,
                              ![g].expiresAt = now + req[g].grantType.maxDuration]
    /\ timer' = [timer EXCEPT ![g] = now + req[g].grantType.maxDuration]
    /\ lpc' = [lpc EXCEPT ![g] = "active"]
    /\ UNCHANGED <<user, now, req, revokeCh, extendCh, gate, mgr, deviceTags,
                   rec, budget, hist, devicePosture>>

\* The activation succeeded: mark the grant Active as of the workflow
\* task's time, arm the expiry timer for the requested duration and enter
\* the Active loop.
LifeActivate(g) ==
    /\ lpc[g] = "arm"
    /\ state' = [state EXCEPT ![g].status = StatusActive,
                              ![g].activatedAt = now,
                              ![g].expiresAt = now + req[g].duration]
    /\ timer' = [timer EXCEPT ![g] = now + req[g].duration]
    /\ lpc' = [lpc EXCEPT ![g] = "active"]
    /\ UNCHANGED <<user, now, req, revokeCh, extendCh, gate, mgr, deviceTags,
                   rec, budget, hist, devicePosture>>

\* A failed activation that falls through to the deactivate phase.
LifeActivateFailsThenReverts(g) ==
    /\ lpc[g] = "activate"
    /\ req[g].grantType.action = ActionTag
    /\ lpc' = [lpc EXCEPT ![g] = "revert"]
    /\ UNCHANGED <<user, now, req, state, timer, revokeCh, extendCh, gate, mgr,
                   deviceTags, devicePosture, rec, budget, hist>>

\* Activate phase, error path: the SignalWithStartDeviceTagManager activity
\* fails after its retries.  A failed attempt may or may not have reached
\* the server, so the signal is delivered or not.  The workflow waits at
\* Get and goes on in a later workflow task; until then it is open, the
\* manager handles what was delivered, and Revoke and Extend are accepted.
LifeActivateFails(g) ==
    /\ lpc[g] = "activate"
    /\ req[g].grantType.action = ActionTag
    /\ LET d == req[g].targetNodeID IN
         \E delivered \in BOOLEAN :
            /\ IF delivered
               THEN \E m \in SignalWithStartDeviceTagManager(mgr[d], AddGrantSignal(g)) :
                       mgr' = [mgr EXCEPT ![d] = m]
               ELSE mgr' = mgr
            /\ hist' = [hist EXCEPT !.addDelivered[g] =
                                        IF delivered THEN @ + 1 ELSE @,
                                    !.order[d] =
                                        IF delivered THEN Append(@, "add") ELSE @]
    /\ lpc' = [lpc EXCEPT ![g] = "error"]
    /\ UNCHANGED <<user, now, req, state, timer, revokeCh, extendCh, gate,
                   deviceTags, devicePosture, rec, budget>>

\* The case the Active loop's sel.Select runs: the one a signal made ready
\* while the Select was blocked, or, when the Select is entered with
\* signals buffered, revoke before extend.  "" when it waits for the timer.
LifeReady(g) ==
    IF lpc[g] \in {"revoke", "extend"} THEN lpc[g]
    ELSE IF lpc[g] # "active" THEN ""
    ELSE IF revokeCh[g] # <<>> THEN "revoke"
    ELSE IF extendCh[g] # <<>> THEN "extend"
    ELSE ""

\* The loop is entered with a signal buffered: the signal is taken in the
\* workflow task that activated the grant or ran the previous case, before
\* the clock moves and before the timer of the loop can fire.
InTask(g) ==
    /\ lpc[g] = "active"
    /\ revokeCh[g] # <<>> \/ extendCh[g] # <<>>

\* Active loop, timer case: the timer fired without having been cancelled.
LifeExpire(g) ==
    /\ lpc[g] \in {"active", "revoke", "extend"}
    /\ timer[g] # NoTime
    /\ now >= timer[g]
    /\ ~InTask(g)
    /\ state' = [state EXCEPT ![g].status = StatusExpired]
    /\ timer' = [timer EXCEPT ![g] = NoTime]
    /\ lpc' = [lpc EXCEPT ![g] = "revert"]
    /\ UNCHANGED <<user, now, req, revokeCh, extendCh, gate, mgr, deviceTags,
                   rec, budget, hist, devicePosture>>

\* A revocation that leaves the expiry timer armed.
LifeRevokeKeepsTimer(g) ==
    /\ LifeReady(g) = "revoke"
    /\ LET sig == Head(revokeCh[g]) IN
         state' = [state EXCEPT ![g].status = StatusRevoked,
                                ![g].revokedBy = sig.revokedBy,
                                ![g].revokedAt = now]
    /\ revokeCh' = [revokeCh EXCEPT ![g] = Tail(@)]
    /\ lpc' = [lpc EXCEPT ![g] = "revert"]
    /\ UNCHANGED <<user, now, req, timer, extendCh, gate, mgr, deviceTags, rec,
                   budget, hist, devicePosture>>

\* A revocation that records neither who revoked nor when.
LifeRevokeNoStamp(g) ==
    /\ LifeReady(g) = "revoke"
    /\ state' = [state EXCEPT ![g].status = StatusRevoked]
    /\ revokeCh' = [revokeCh EXCEPT ![g] = Tail(@)]
    /\ timer' = [timer EXCEPT ![g] = NoTime]
    /\ lpc' = [lpc EXCEPT ![g] = "revert"]
    /\ UNCHANGED <<user, now, req, extendCh, gate, mgr, deviceTags, rec, budget, hist,
                   devicePosture>>

\* Active loop, revoke case: cancel the timer, record who revoked and when.
LifeRevoke(g) ==
    /\ LifeReady(g) = "revoke"
    /\ LET sig == Head(revokeCh[g]) IN
         state' = [state EXCEPT ![g].status = StatusRevoked,
                                ![g].revokedBy = sig.revokedBy,
                                ![g].revokedAt = now]
    /\ revokeCh' = [revokeCh EXCEPT ![g] = Tail(@)]
    /\ timer' = [timer EXCEPT ![g] = NoTime]
    /\ lpc' = [lpc EXCEPT ![g] = "revert"]
    /\ UNCHANGED <<user, now, req, extendCh, gate, mgr, deviceTags, rec, budget, hist,
                   devicePosture>>

\* The duration an Extend signal is taken for: clamped to maxDuration.
ClampExtend(duration, maxDur) ==
    IF maxDur > 0 /\ duration > maxDur THEN maxDur ELSE duration

\* An extension that adds the new duration to the time remaining and
\* leaves the running timer armed.
LifeExtendAddsToRemaining(g) ==
    /\ LifeReady(g) = "extend"
    /\ LET sig == Head(extendCh[g])
           dur == ClampExtend(sig.duration, req[g].grantType.maxDuration)
       IN state' = [state EXCEPT ![g].expiresAt = @ + dur]
    /\ extendCh' = [extendCh EXCEPT ![g] = Tail(@)]
    /\ lpc' = [lpc EXCEPT ![g] = "active"]
    /\ UNCHANGED <<user, now, req, timer, revokeCh, gate, mgr, deviceTags, rec,
                   budget, hist, devicePosture>>

\* An extend case that is taken also when the Select is entered with a
\* revoke signal buffered.
LifeExtendBeforeRevoke(g) ==
    /\ lpc[g] \in {"active", "extend"}
    /\ extendCh[g] # <<>>
    /\ LET sig == Head(extendCh[g])
           dur == ClampExtend(sig.duration, req[g].grantType.maxDuration)
       IN /\ state' = [state EXCEPT ![g].expiresAt = now + dur]
          /\ timer' = [timer EXCEPT ![g] = now + dur]
    /\ extendCh' = [extendCh EXCEPT ![g] = Tail(@)]
    /\ lpc' = [lpc EXCEPT ![g] = "active"]
    /\ UNCHANGED <<user, now, req, revokeCh, gate, mgr, deviceTags, rec,
                   budget, hist, devicePosture>>

\* Active loop, extend case: cancel the timer, clamp, and re-arm for the
\* new duration from now; the loop goes round to the next sel.Select.
LifeExtend(g) ==
    /\ LifeReady(g) = "extend"
    /\ LET sig == Head(extendCh[g])
           dur == ClampExtend(sig.duration, req[g].grantType.maxDuration)
       IN /\ state' = [state EXCEPT ![g].expiresAt = now + dur]
          /\ timer' = [timer EXCEPT ![g] = now + dur]
    /\ extendCh' = [extendCh EXCEPT ![g] = Tail(@)]
    /\ lpc' = [lpc EXCEPT ![g] = "active"]
    /\ UNCHANGED <<user, now, req, revokeCh, gate, mgr, deviceTags, rec,
                   budget, hist, devicePosture>>

\* Deactivate phase of a tag grant: signal remove-grant to the manager by
\* workflow id; a failure (no running manager) is logged and ignored.  The
\* workflow waits at Get and returns in a later workflow task.
LifeRevert(g) ==
    /\ lpc[g] = "revert"
    /\ req[g].grantType.action = ActionTag
    /\ LET d == req[g].targetNodeID IN
         IF mgr[d].running
         THEN /\ \E s \in Arrivals(mgr[d].sel, MgrBlocked(mgr[d]), "remove") :
                    mgr' = [mgr EXCEPT ![d].sel = s,
                                       ![d].removeCh = Append(@, req[g].id)]
              /\ hist' = [hist EXCEPT !.removeSent[g] = @ + 1,
                                      !.order[d] = Append(@, "remove")]
         ELSE /\ mgr' = mgr
              /\ hist' = [hist EXCEPT !.removeSent[g] = @ + 1,
                                      !.removeFailed[g] = @ + 1]
    /\ lpc' = [lpc EXCEPT ![g] = "return"]
    /\ UNCHANGED <<user, now, req, state, timer, revokeCh, extendCh, gate,
                   deviceTags, rec, budget, devicePosture>>

-----------------------------------------------------------------------------
(* GrantWorkflow: user grants *)

\* A user grant type: user_role with the role to elevate to, or
\* user_restore.
UserGrantType(name, action, role) ==
    [name |-> name, action |-> action, tags |-> <<>>,
     postureAttributes |-> <<>>, maxDuration |-> MaxDur,
     riskLevel |-> RiskLow, approvers |-> <<>>, userAction |-> [role |-> role]]

UserRequest(id, requester, targetUserID, duration, gt) ==
    [id |-> id, requester |-> requester, requesterNode |-> "",
     targetNodeID |-> "", targetUserID |-> targetUserID,
     duration |-> duration, grantType |-> gt]

TypeElevate == UserGrantType("elevate", ActionUserRole, RoleAdmin)
TypeRestore == UserGrantType("restore", ActionUserRestore, "")

\* Activate phase of a user_role grant: a type without userAction ends the
\* workflow with an error; otherwise the first activity, GetUser, whose
\* role is kept as originalRole.
LifeGetUser(g) ==
    /\ lpc[g] = "activate"
    /\ req[g].grantType.action = ActionUserRole
    /\ IF "userAction" \notin DOMAIN req[g].grantType
       THEN /\ lpc' = [lpc EXCEPT ![g] = "failed"]
            /\ state' = state
       ELSE /\ state' = [state EXCEPT
                             ![g].originalRole = user[req[g].targetUserID].role]
            /\ lpc' = [lpc EXCEPT ![g] = "setrole"]
    /\ UNCHANGED <<user, now, req, timer, revokeCh, extendCh, gate, mgr,
                   deviceTags, devicePosture, rec, budget, hist>>

\* GetUser fails after its retries; the workflow goes on in a later
\* workflow task.
LifeGetUserFails(g) ==
    /\ lpc[g] = "activate"
    /\ req[g].grantType.action = ActionUserRole
    /\ "userAction" \in DOMAIN req[g].grantType
    /\ lpc' = [lpc EXCEPT ![g] = "error"]
    /\ UNCHANGED <<user, now, req, state, timer, revokeCh, extendCh, gate, mgr,
                   deviceTags, devicePosture, rec, budget, hist>>

\* Activate phase of a user_role grant, second activity: SetUserRole to
\* the type's role.
LifeSetUserRole(g) ==
    /\ lpc[g] = "setrole"
    /\ user' = [user EXCEPT ![req[g].targetUserID].role =
                    req[g].grantType.userAction.role]
    /\ lpc' = [lpc EXCEPT ![g] = "arm"]
    /\ UNCHANGED <<now, req, state, timer, revokeCh, extendCh, gate, mgr,
                   deviceTags, devicePosture, rec, budget, hist>>

\* SetUserRole fails after its retries.  A failed attempt may or may not
\* have reached the control plane.  The workflow goes on in a later
\* workflow task.
LifeSetUserRoleFails(g) ==
    /\ lpc[g] = "setrole"
    /\ \E applied \in BOOLEAN :
         user' = IF applied
                 THEN [user EXCEPT ![req[g].targetUserID].role =
                           req[g].grantType.userAction.role]
                 ELSE user
    /\ lpc' = [lpc EXCEPT ![g] = "error"]
    /\ UNCHANGED <<now, req, state, timer, revokeCh, extendCh, gate, mgr,
                   deviceTags, devicePosture, rec, budget, hist>>

\* Activate phase of a user_restore grant, the activity: RestoreUser.
LifeRestoreUser(g) ==
    /\ lpc[g] = "activate"
    /\ req[g].grantType.action = ActionUserRestore
    /\ user' = [user EXCEPT ![req[g].targetUserID].status = UserActive]
    /\ lpc' = [lpc EXCEPT ![g] = "arm"]
    /\ UNCHANGED <<now, req, state, timer, revokeCh, extendCh, gate, mgr,
                   deviceTags, devicePosture, rec, budget, hist>>

\* RestoreUser fails after its retries.  A failed attempt may or may not
\* have reached the control plane.  The workflow goes on in a later
\* workflow task.
LifeRestoreUserFails(g) ==
    /\ lpc[g] = "activate"
    /\ req[g].grantType.action = ActionUserRestore
    /\ \E applied \in BOOLEAN :
         user' = IF applied
                 THEN [user EXCEPT ![req[g].targetUserID].status = UserActive]
                 ELSE user
    /\ lpc' = [lpc EXCEPT ![g] = "error"]
    /\ UNCHANGED <<now, req, state, timer, revokeCh, extendCh, gate, mgr,
                   deviceTags, devicePosture, rec, budget, hist>>

\* Deactivate phase of a user_role grant: the SetUserRole activity back to
\* originalRole, after which the workflow returns in a later workflow
\* task; with an empty originalRole the revert is skipped and the workflow
\* returns at once.
LifeRevertUserRole(g) ==
    /\ lpc[g] = "revert"
    /\ req[g].grantType.action = ActionUserRole
    /\ IF state[g].originalRole = ""
       THEN /\ user' = user
            /\ lpc' = [lpc EXCEPT ![g] = "done"]
       ELSE /\ user' = [user EXCEPT ![req[g].targetUserID].role =
                            state[g].originalRole]
            /\ lpc' = [lpc EXCEPT ![g] = "return"]
    /\ UNCHANGED <<now, req, state, timer, revokeCh, extendCh, gate, mgr,
                   deviceTags, devicePosture, rec, budget, hist>>

\* Deactivate phase of a user_restore grant: the SuspendUser activity; the
\* workflow returns in a later workflow task.
LifeRevertUserRestore(g) ==
    /\ lpc[g] = "revert"
    /\ req[g].grantType.action = ActionUserRestore
    /\ user' = [user EXCEPT ![req[g].targetUserID].status = UserSuspended]
    /\ lpc' = [lpc EXCEPT ![g] = "return"]
    /\ UNCHANGED <<now, req, state, timer, revokeCh, extendCh, gate, mgr,
                   deviceTags, devicePosture, rec, budget, hist>>

\* Deactivate phase of a user grant, error path: the SetUserRole or
\* SuspendUser activity fails; the error is logged and the workflow
\* returns in a later workflow task.
LifeRevertUserFails(g) ==
    /\ lpc[g] = "revert"
    /\ \/ req[g].grantType.action = ActionUserRole /\ state[g].originalRole # ""
       \/ req[g].grantType.action = ActionUserRestore
    /\ lpc' = [lpc EXCEPT ![g] = "return"]
    /\ hist' = [hist EXCEPT !.failed =
                    @ \cup {<<IF req[g].grantType.action = ActionUserRole
                              THEN "SetUserRole" ELSE "SuspendUser", g>>}]
    /\ UNCHANGED <<user, now, req, state, timer, revokeCh, extendCh, gate, mgr,
                   deviceTags, devicePosture, rec, budget>>

\* The workflow task after the deactivate phase: the workflow returns its
\* state without error.  Signals received since are lost with the run.
LifeReturn(g) ==
    /\ lpc[g] = "return"
    /\ lpc' = [lpc EXCEPT ![g] = "done"]
    /\ UNCHANGED <<user, now, req, state, timer, revokeCh, extendCh, gate, mgr,
                   deviceTags, devicePosture, rec, budget, hist>>

\* The workflow task after a failed activity of the activate phase: the
\* workflow returns the state it has with the error.
LifeReturnError(g) ==
    /\ lpc[g] = "error"
    /\ lpc' = [lpc EXCEPT ![g] = "failed"]
    /\ UNCHANGED <<user, now, req, state, timer, revokeCh, extendCh, gate, mgr,
                   deviceTags, devicePosture, rec, budget, hist>>

-----------------------------------------------------------------------------
(* ApprovalWorkflow *)

\* The result with which the gate returns; its channels die with it.
GateResolve(gt, result) ==
    [gt EXCEPT !.running = FALSE, !.decided = TRUE, !.result = result,
               !.resolvedAt = now, !.approveCh = <<>>, !.denyCh = <<>>,
               !.sel = ""]

\* The gate has no signal buffered.
GateBlocked(gt) == gt.approveCh = <<>> /\ gt.denyCh = <<>>

\* The case the gate's sel.Select runs: the one a signal made ready while
\* the Select was blocked, or, when the Select is entered with signals
\* buffered, approve before deny.  "" when it waits.
GateReady(gt) ==
    IF gt.sel \notin {"", "enter"} THEN gt.sel
    ELSE IF gt.approveCh # <<>> THEN "approve"
    ELSE IF gt.denyCh # <<>> THEN "deny"
    ELSE ""

\* The loop came round to sel.Select with a signal buffered: the signal is
\* taken in the workflow task that rejected the previous one.
GateInTask(gt) == gt.running /\ gt.sel = "" /\ ~GateBlocked(gt)

\* An acceptance test that lacks the self-approval check.
ApproveAcceptedNoSelfCheck(approvedBy, requesterLogin, approvers) ==
    ~(approvedBy \notin Range(approvers) /\ Len(approvers) > 0)

\* An acceptance test that lacks the approver-list check.
ApproveAcceptedNoListCheck(approvedBy, requesterLogin, approvers) ==
    approvedBy # requesterLogin

\* Whether an approve signal from approvedBy is accepted.
ApproveAccepted(approvedBy, requesterLogin, approvers) ==
    /\ approvedBy # requesterLogin
    /\ ~(approvedBy \notin Range(approvers) /\ Len(approvers) > 0)

\* An approve case in which a rejected signal restarts the 24h timer.
GateApproveRejectRestartsTimer(g) ==
    /\ gate[g].running
    /\ GateReady(gate[g]) = "approve"
    /\ LET sig == Head(gate[g].approveCh)
           rest == [gate[g] EXCEPT !.approveCh = Tail(@), !.sel = ""]
       IN IF ApproveAccepted(sig.approvedBy, req[g].requester,
                             req[g].grantType.approvers)
          THEN gate' = [gate EXCEPT ![g] =
                   GateResolve(rest, [approved |-> TRUE, approvedBy |-> sig.approvedBy,
                                      deniedBy |-> "", reason |-> ""])]
          ELSE gate' = [gate EXCEPT ![g] =
                   [rest EXCEPT !.rejected = @ \cup {sig.approvedBy},
                                !.deadline = now + approvalTimeout]]
    /\ UNCHANGED <<user, now, req, lpc, state, timer, revokeCh, extendCh, mgr,
                   deviceTags, rec, budget, hist, devicePosture>>

\* An approve case in which a rejected signal resolves the gate as not
\* approved instead of leaving it open.
GateApproveRejectResolves(g) ==
    /\ gate[g].running
    /\ GateReady(gate[g]) = "approve"
    /\ LET sig == Head(gate[g].approveCh)
           rest == [gate[g] EXCEPT !.approveCh = Tail(@), !.sel = ""]
       IN IF ApproveAccepted(sig.approvedBy, req[g].requester,
                             req[g].grantType.approvers)
          THEN gate' = [gate EXCEPT ![g] =
                   GateResolve(rest, [approved |-> TRUE, approvedBy |-> sig.approvedBy,
                                      deniedBy |-> "", reason |-> ""])]
          ELSE gate' = [gate EXCEPT ![g] =
                   GateResolve([rest EXCEPT !.rejected = @ \cup {sig.approvedBy}],
                               [approved |-> FALSE, approvedBy |-> "",
                                deniedBy |-> "", reason |-> "not authorized"])]
    /\ UNCHANGED <<user, now, req, lpc, state, timer, revokeCh, extendCh, mgr,
                   deviceTags, rec, budget, hist, devicePosture>>

\* Approve case: self-approval and approvers outside a non-empty approver
\* list are rejected and the loop goes round to the next sel.Select.
GateApprove(g) ==
    /\ gate[g].running
    /\ GateReady(gate[g]) = "approve"
    /\ LET sig == Head(gate[g].approveCh)
           rest == [gate[g] EXCEPT !.approveCh = Tail(@), !.sel = ""]
       IN IF ApproveAccepted(sig.approvedBy, req[g].requester,
                             req[g].grantType.approvers)
          THEN gate' = [gate EXCEPT ![g] =
                   GateResolve(rest, [approved |-> TRUE, approvedBy |-> sig.approvedBy,
                                      deniedBy |-> "", reason |-> ""])]
          ELSE gate' = [gate EXCEPT ![g] =
                   [rest EXCEPT !.rejected = @ \cup {sig.approvedBy}]]
    /\ UNCHANGED <<user, now, req, lpc, state, timer, revokeCh, extendCh, mgr,
                   deviceTags, rec, budget, hist, devicePosture>>

\* Deny case.
GateDeny(g) ==
    /\ gate[g].running
    /\ GateReady(gate[g]) = "deny"
    /\ LET sig == Head(gate[g].denyCh) IN
         gate' = [gate EXCEPT ![g] =
             GateResolve(@, [approved |-> FALSE, approvedBy |-> "",
                             deniedBy |-> sig.deniedBy, reason |-> sig.reason])]
    /\ UNCHANGED <<user, now, req, lpc, state, timer, revokeCh, extendCh, mgr,
                   deviceTags, rec, budget, hist, devicePosture>>

\* Timer case: approvalTimeout after the gate started.
GateTimeout(g) ==
    /\ gate[g].running
    /\ now >= gate[g].deadline
    /\ ~GateInTask(gate[g])
    /\ gate' = [gate EXCEPT ![g] =
           GateResolve(@, [approved |-> FALSE, approvedBy |-> "",
                           deniedBy |-> "", reason |-> "approval timed out"])]
    /\ UNCHANGED <<user, now, req, lpc, state, timer, revokeCh, extendCh, mgr,
                   deviceTags, rec, budget, hist, devicePosture>>

-----------------------------------------------------------------------------
(* Signals sent to the workflows by their clients, and the clock *)

UseSignal == budget' = [budget EXCEPT !.signals = @ - 1]

\* An approve signal sent to the ApprovalWorkflow by a Temporal client.
SignalApprove(g, who) ==
    /\ budget.signals > 0
    /\ gate[g].running
    /\ \E s \in Arrivals(gate[g].sel, GateBlocked(gate[g]), "approve") :
         gate' = [gate EXCEPT ![g].sel = s,
                              ![g].approveCh = Append(@, [approvedBy |-> who])]
    /\ UseSignal
    /\ hist' = [hist EXCEPT !.approveSent = @ \cup {who}]
    /\ UNCHANGED <<user, now, req, lpc, state, timer, revokeCh, extendCh, mgr,
                   deviceTags, rec, devicePosture>>

\* HandleDenyGrant: signal deny to the grant's ApprovalWorkflow.
SignalDeny(g, who) ==
    /\ budget.signals > 0
    /\ gate[g].running
    /\ \E s \in Arrivals(gate[g].sel, GateBlocked(gate[g]), "deny") :
         gate' = [gate EXCEPT ![g].sel = s,
                              ![g].denyCh =
                                  Append(@, [deniedBy |-> who, reason |-> "no"])]
    /\ UseSignal
    /\ UNCHANGED <<user, now, req, lpc, state, timer, revokeCh, extendCh, mgr,
                   deviceTags, rec, hist, devicePosture>>

\* The position of a GrantWorkflow that a signal reaches: blocked in the
\* Active loop's Select with nothing buffered, the signal's case becomes
\* the one that runs.
LifeArrival(g, kind) ==
    IF lpc[g] = "active" /\ revokeCh[g] = <<>> /\ extendCh[g] = <<>>
    THEN kind ELSE lpc[g]

\* HandleRevokeGrant: signal revoke to the GrantWorkflow.
SignalRevoke(g, who) ==
    /\ budget.signals > 0
    /\ Running(g)
    /\ revokeCh' = [revokeCh EXCEPT ![g] = Append(@, [revokedBy |-> who])]
    /\ lpc' = [lpc EXCEPT ![g] = LifeArrival(g, "revoke")]
    /\ UseSignal
    /\ hist' = [hist EXCEPT !.lifeSignals = @ \cup {g},
                            !.earlyRevoke =
                                IF lpc[g] \in {"active", "revoke", "extend", "revert", "return"}
                                THEN @ ELSE @ \cup {g}]
    /\ UNCHANGED <<user, now, req, state, timer, extendCh, gate, mgr,
                   deviceTags, rec, devicePosture>>

\* HandleExtendGrant: signal extend, with a positive duration, to the
\* GrantWorkflow.
SignalExtend(g, who, duration) ==
    /\ budget.signals > 0
    /\ Running(g)
    /\ extendCh' = [extendCh EXCEPT ![g] =
                       Append(@, [extendedBy |-> who, duration |-> duration])]
    /\ lpc' = [lpc EXCEPT ![g] = LifeArrival(g, "extend")]
    /\ UseSignal
    /\ hist' = [hist EXCEPT !.lifeSignals = @ \cup {g}]
    /\ UNCHANGED <<user, now, req, state, timer, revokeCh, gate, mgr,
                   deviceTags, rec, devicePosture>>

\* HandleApproveGrant, up to its reply or its signal: query the grant's
\* status, refuse a grant that is not pending approval (409) and the
\* requester's own approval (403); otherwise the request goes on to signal.
HandleApproveQuery(g, who) ==
    /\ budget.signals > 0
    /\ lpc[g] # "absent"
    /\ <<g, who>> \notin budget.approving
    /\ IF state[g].status # StatusPendingApproval
       THEN /\ hist' = [hist EXCEPT !.apiReplies = @ \cup {<<who, 409>>}]
            /\ UseSignal
       ELSE IF req[g].requester = who
       THEN /\ hist' = [hist EXCEPT !.apiReplies = @ \cup {<<who, 403>>}]
            /\ UseSignal
       ELSE /\ hist' = hist
            /\ budget' = [budget EXCEPT !.signals = @ - 1,
                                        !.approving = @ \cup {<<g, who>>}]
    /\ UNCHANGED <<user, now, req, lpc, state, timer, revokeCh, extendCh, gate,
                   mgr, deviceTags, devicePosture, rec>>

\* HandleApproveGrant, the signal: approve is signalled to the grant's
\* ApprovalWorkflow (200); a signal that finds no running ApprovalWorkflow
\* is answered 500.
HandleApproveSignal(g, who) ==
    /\ <<g, who>> \in budget.approving
    /\ budget' = [budget EXCEPT !.approving = @ \ {<<g, who>>}]
    /\ IF ~gate[g].running
       THEN /\ hist' = [hist EXCEPT !.apiReplies = @ \cup {<<who, 500>>}]
            /\ gate' = gate
       ELSE /\ hist' = [hist EXCEPT !.apiReplies = @ \cup {<<who, 200>>},
                                    !.apiForwarded = @ \cup {who},
                                    !.approveSent = @ \cup {who}]
            /\ \E s \in Arrivals(gate[g].sel, GateBlocked(gate[g]), "approve") :
                 gate' = [gate EXCEPT ![g].sel = s,
                                      ![g].approveCh =
                                          Append(@, [approvedBy |-> who])]
    /\ UNCHANGED <<user, now, req, lpc, state, timer, revokeCh, extendCh, mgr,
                   deviceTags, devicePosture, rec>>

\* The clock of a workflow does not move inside one workflow task: a signal
\* that is buffered when a Select is entered is taken at the time of the
\* step that led there.
Tick ==
    /\ now < budget.horizon
    /\ \A g \in Grants : ~InTask(g) /\ ~GateInTask(gate[g])
    /\ now' = now + 1
    /\ UNCHANGED <<user, req, lpc, state, timer, revokeCh, extendCh, gate, mgr,
                   deviceTags, rec, budget, hist, devicePosture>>

-----------------------------------------------------------------------------
(* DeviceTagManagerWorkflow *)

\* The union of the tags of all active grants.
ActiveTags(activeGrants) ==
    UNION {Range(activeGrants[g].tags) : g \in DOMAIN activeGrants}

\* A tag computation that forgets the device's current tags.
computeDesiredTagsActiveOnly(currentTags, activeGrants, removedTags) ==
    SortedSeq(ActiveTags(activeGrants))

\* A tag computation that strips the removed tags after the union.
computeDesiredTagsStripLast(currentTags, activeGrants, removedTags) ==
    SortedSeq((Range(currentTags) \cup ActiveTags(activeGrants))
                  \ Range(removedTags))

\* A tag computation that appends the active grants' tags to the kept
\* current tags, neither sorted nor deduplicated.
computeDesiredTagsUnsorted(currentTags, activeGrants, removedTags) ==
    SelectSeq(currentTags, LAMBDA t : t \notin Range(removedTags))
        \o SortedSeq(ActiveTags(activeGrants))

\* computeDesiredTags: the current tags without the removed grant's tags,
\* united with the tags of every active grant, sorted.
computeDesiredTags(currentTags, activeGrants, removedTags) ==
    LET removeSet == Range(removedTags)
        seen == {t \in Range(currentTags) : t \notin removeSet}
                    \cup ActiveTags(activeGrants)
    IN SortedSeq(seen)

\* The grant ids whose buffered signals a closing run takes with it.
PendingAdds(m) == {m.addCh[i].grantID : i \in DOMAIN m.addCh}
PendingRemoves(m) == Range(m.removeCh)

\* A loop end that completes the run at the signal threshold instead of
\* continuing as new.
AfterSelectCompletesAtThreshold(m) ==
    IF DOMAIN m.activeGrants = {} \/ m.signalCount >= tagManagerContinueAsNewThreshold
    THEN [Mgr0 EXCEPT !.running = FALSE]
    ELSE [m EXCEPT !.pc = "select", !.removedTags = <<>>, !.currentTags = <<>>,
                   !.handler = "", !.todo = <<>>, !.sel = ""]

\* After sel.Select returns: the workflow completes when no grant is
\* active, continues as new once signalCount reaches the threshold, and
\* otherwise selects again.  Completing or continuing as new closes the
\* run; signals still buffered in its channels are not carried over.
AfterSelect(m) ==
    IF DOMAIN m.activeGrants = {}
    THEN [Mgr0 EXCEPT !.running = FALSE]
    ELSE IF m.signalCount >= tagManagerContinueAsNewThreshold
    THEN [Mgr0 EXCEPT !.running = TRUE, !.activeGrants = m.activeGrants,
                      !.sel = "enter"]
    ELSE [m EXCEPT !.pc = "select", !.removedTags = <<>>, !.currentTags = <<>>,
                   !.handler = "", !.todo = <<>>, !.sel = ""]

\* Whether the run closes (completes or continues as new) after this signal.
Closes(m) ==
    \/ DOMAIN m.activeGrants = {}
    \/ m.signalCount >= tagManagerContinueAsNewThreshold

HistAfterSelect(h, m, d) ==
    IF Closes(m)
    THEN [h EXCEPT !.droppedAdd = @ \cup PendingAdds(m),
                   !.droppedRemove = @ \cup PendingRemoves(m),
                   !.order[d] = <<>>]
    ELSE h

\* Observation: the kinds of the signals waiting in the channels of the
\* manager of d, in the order they arrived; a handler that takes a signal
\* of a kind other than the oldest one's is noted.
Consume(h, d, kind) ==
    LET first == Min({i \in DOMAIN h.order[d] : h.order[d][i] = kind})
    IN [h EXCEPT !.outOfOrder = IF h.order[d][1] # kind
                                THEN @ \cup {<<d, kind, h.order[d][1]>>} ELSE @,
                 !.order[d] = [i \in 1..(Len(@) - 1) |->
                                  IF i < first THEN @[i] ELSE @[i + 1]]]

\* resolvePostureTarget: the device a posture attribute is applied to.
resolvePostureTarget(targetNodeID, pa, requesterNodeID) ==
    IF pa.target = "target" THEN targetNodeID ELSE requesterNodeID

\* The (device, key) pairs the posture attributes of the grants in active
\* resolve to.
ClaimedPosture(active, targetNodeID) ==
    UNION {{<<resolvePostureTarget(targetNodeID, active[g].postureAttributes[i],
                                   active[g].requesterNodeID),
              active[g].postureAttributes[i].key>> :
                i \in DOMAIN active[g].postureAttributes} : g \in DOMAIN active}

\* An orphan test that compares keys only, whatever device they resolve to.
orphanedPostureAttributesByKey(removed, active, targetNodeID) ==
    SelectSeq(removed.postureAttributes,
              LAMBDA pa : pa.key \notin
                  {c[2] : c \in ClaimedPosture(active, targetNodeID)})

\* orphanedPostureAttributes: the removed grant's attributes that no
\* remaining active grant claims on the same device.
orphanedPostureAttributes(removed, active, targetNodeID) ==
    SelectSeq(removed.postureAttributes,
              LAMBDA pa : <<resolvePostureTarget(targetNodeID, pa, removed.requesterNodeID),
                            pa.key>> \notin ClaimedPosture(active, targetNodeID))

\* The activity calls a loop over attrs makes: one per attribute whose
\* device resolves to a non-empty id.
PostureCalls(op, targetNodeID, attrs, requesterNodeID) ==
    LET calls == [i \in DOMAIN attrs |->
                    [op |-> op,
                     device |-> resolvePostureTarget(targetNodeID, attrs[i], requesterNodeID),
                     key |-> attrs[i].key]]
    IN SelectSeq(calls, LAMBDA c : c.device # "")

\* applyPostureAttributes: SetPostureAttribute for each attribute.
applyPostureAttributes(targetNodeID, attrs, requesterNodeID) ==
    PostureCalls("set", targetNodeID, attrs, requesterNodeID)

\* removePostureAttributes: DeletePostureAttribute for each attribute.
removePostureAttributes(targetNodeID, attrs, requesterNodeID) ==
    PostureCalls("delete", targetNodeID, attrs, requesterNodeID)

RECURSIVE ApplyAll(_, _, _)
\* syncPostureAttributes, first loop: re-apply the attributes of every
\* active grant (grants taken in the order given, one of the orders in
\* which the range over the map may visit them).
ApplyAll(order, active, targetNodeID) ==
    IF order = <<>> THEN <<>>
    ELSE (IF Head(order) \in DOMAIN active
          THEN applyPostureAttributes(targetNodeID,
                                      active[Head(order)].postureAttributes,
                                      active[Head(order)].requesterNodeID)
          ELSE <<>>) \o ApplyAll(Tail(order), active, targetNodeID)

\* A prefix test that takes every key for a grant-managed one.
HasCustomPrefixAny(key) == TRUE

\* The key[:7] == "custom:" test of syncPostureAttributes (len(key) > 7).
HasCustomPrefix(key) == key.prefix = "custom:" /\ key.name # ""

\* All orders in which the elements of a finite set can be visited.
Orderings(S) ==
    {f \in [1..Cardinality(S) -> S] :
        \A i, j \in 1..Cardinality(S) : i # j => f[i] # f[j]}

\* Where a handler goes once applyTags or a posture call is over: the next
\* posture call, the diff of a sync, or the end of the handler.
Proceed(m) ==
    IF m.todo # <<>> THEN [m EXCEPT !.pc = "posture"]
    ELSE IF m.handler = "sync" THEN [m EXCEPT !.pc = "syncget"]
    ELSE [m EXCEPT !.pc = "after"]

\* applyTags, first half: nothing to do when no active grant has tags and
\* nothing was removed; otherwise go on to fetch the device's tags.
applyTagsStart(m, removedTags) ==
    IF ActiveTags(m.activeGrants) = {} /\ Len(removedTags) = 0
    THEN Proceed(m)
    ELSE [m EXCEPT !.pc = "get", !.removedTags = removedTags]

\* The handler's continuation once applyTags was skipped: a handler that
\* calls no activity is over in the workflow task that took the signal,
\* and the code after sel.Select runs with it.
SettleFrom(d, m, h) ==
    IF m.pc = "after"
    THEN /\ mgr' = [mgr EXCEPT ![d] = AfterSelect(m)]
         /\ hist' = HistAfterSelect(h, m, d)
    ELSE /\ mgr' = [mgr EXCEPT ![d] = m]
         /\ hist' = h

\* The case the manager's sel.Select runs: the one a signal made ready
\* while the Select was blocked, or, when the Select is entered with
\* signals buffered, the first of add-grant, remove-grant and sync that has
\* one.  "" when it waits.
MgrReady(m) ==
    IF m.sel \notin {"", "enter"} THEN m.sel
    ELSE IF m.addCh # <<>> THEN "add"
    ELSE IF m.removeCh # <<>> THEN "remove"
    ELSE IF m.syncCh > 0 THEN "sync"
    ELSE ""

\* add-grant case: record the grant's assets.
MgrAdd(d) ==
    /\ mgr[d].running
    /\ mgr[d].pc = "select"
    /\ MgrReady(mgr[d]) = "add"
    /\ LET sig == Head(mgr[d].addCh)
           assets == [tags |-> sig.tags,
                      postureAttributes |-> sig.postureAttributes,
                      requesterNodeID |-> sig.requesterNodeID]
           ag == [g \in DOMAIN mgr[d].activeGrants \cup {sig.grantID} |->
                      IF g = sig.grantID THEN assets ELSE mgr[d].activeGrants[g]]
           m == [mgr[d] EXCEPT !.addCh = Tail(@), !.signalCount = @ + 1,
                               !.sel = "",
                               !.activeGrants = ag, !.handler = "add",
                               !.todo = applyPostureAttributes(d,
                                            sig.postureAttributes,
                                            sig.requesterNodeID)]
       IN SettleFrom(d, applyTagsStart(m, <<>>),
                     Consume(hist, d, "add"))
    /\ UNCHANGED <<user, now, req, lpc, state, timer, revokeCh, extendCh, gate,
                   deviceTags, rec, budget, devicePosture>>

\* remove-grant case: drop the grant (an absent id yields the zero
\* GrantAssets) and strip its tags.
MgrRemove(d) ==
    /\ mgr[d].running
    /\ mgr[d].pc = "select"
    /\ MgrReady(mgr[d]) = "remove"
    /\ LET id == Head(mgr[d].removeCh)
           assets == IF id \in DOMAIN mgr[d].activeGrants
                     THEN mgr[d].activeGrants[id]
                     ELSE [tags |-> <<>>, postureAttributes |-> <<>>,
                           requesterNodeID |-> ""]
           ag == [g \in DOMAIN mgr[d].activeGrants \ {id} |-> mgr[d].activeGrants[g]]
           m == [mgr[d] EXCEPT !.removeCh = Tail(@), !.signalCount = @ + 1,
                               !.sel = "",
                               !.activeGrants = ag, !.handler = "remove",
                               !.todo = removePostureAttributes(d,
                                            orphanedPostureAttributes(assets, ag, d),
                                            assets.requesterNodeID)]
       IN SettleFrom(d, applyTagsStart(m, assets.tags),
                     Consume(hist, d, "remove"))
    /\ UNCHANGED <<user, now, req, lpc, state, timer, revokeCh, extendCh, gate,
                   deviceTags, rec, budget, devicePosture>>

\* sync case: re-apply the desired tags, then the posture attributes of
\* the active grants in the order the range over the map visits them.
MgrSync(d) ==
    /\ mgr[d].running
    /\ mgr[d].pc = "select"
    /\ MgrReady(mgr[d]) = "sync"
    /\ \E order \in Orderings(DOMAIN mgr[d].activeGrants) :
         LET m == [mgr[d] EXCEPT !.syncCh = @ - 1, !.signalCount = @ + 1,
                                 !.sel = "",
                                 !.handler = "sync",
                                 !.todo = ApplyAll(order, mgr[d].activeGrants, d)]
         IN SettleFrom(d, applyTagsStart(m, <<>>),
                       Consume(hist, d, "sync"))
    /\ UNCHANGED <<user, now, req, lpc, state, timer, revokeCh, extendCh, gate,
                   deviceTags, rec, budget, devicePosture>>

\* Whether the sweep in progress still holds the tags it listed for d.
RecHolds(d) ==
    /\ rec.pc # "sleep"
    /\ \E i \in rec.idx..Len(rec.devices) : rec.devices[i].nodeID = d

\* applyTags: the GetDeviceTags activity.
MgrGetTags(d) ==
    /\ mgr[d].running
    /\ mgr[d].pc = "get"
    /\ mgr' = [mgr EXCEPT ![d].pc = "set", ![d].currentTags = deviceTags[d]]
    /\ hist' = [hist EXCEPT !.mgrStale[d] = FALSE]
    /\ UNCHANGED <<user, now, req, lpc, state, timer, revokeCh, extendCh, gate,
                   deviceTags, rec, budget, devicePosture>>

\* applyTags: the SetDeviceTags activity with the desired tags; the handler
\* goes on to its posture attributes.
MgrSetTags(d) ==
    /\ mgr[d].running
    /\ mgr[d].pc = "set"
    /\ deviceTags' = [deviceTags EXCEPT ![d] =
           computeDesiredTags(mgr[d].currentTags, mgr[d].activeGrants,
                              mgr[d].removedTags)]
    /\ mgr' = [mgr EXCEPT ![d] = Proceed(@)]
    /\ hist' = [hist EXCEPT
                   !.mgrStale[d] = FALSE,
                   !.recStale[d] = RecHolds(d),
                   !.interleaved = IF hist.mgrStale[d] THEN @ \cup {d} ELSE @]
    /\ UNCHANGED <<user, now, req, lpc, state, timer, revokeCh, extendCh, gate,
                   rec, budget, devicePosture>>

\* The posture attributes of the devices after one SetPostureAttribute or
\* DeletePostureAttribute call c (a device first written to gets its entry).
PostureAfter(posture, c) ==
    [n \in DOMAIN posture \cup {c.device} |->
        LET old == IF n \in DOMAIN posture THEN posture[n] ELSE {}
        IN IF n # c.device THEN old
           ELSE IF c.op = "set" THEN old \cup {c.key} ELSE old \ {c.key}]

\* One SetPostureAttribute or DeletePostureAttribute activity of the
\* handler in progress.
MgrPosture(d) ==
    /\ mgr[d].running
    /\ mgr[d].pc = "posture"
    /\ devicePosture' = PostureAfter(devicePosture, Head(mgr[d].todo))
    /\ mgr' = [mgr EXCEPT ![d] = Proceed([@ EXCEPT !.todo = Tail(@)])]
    /\ UNCHANGED <<user, now, req, lpc, state, timer, revokeCh, extendCh, gate,
                   deviceTags, rec, budget, hist>>

\* syncPostureAttributes, second half: fetch the target device's posture
\* attributes and delete every custom: key that no active grant expects
\* there (in map iteration order, which is arbitrary).
MgrSyncGet(d) ==
    /\ mgr[d].running
    /\ mgr[d].pc = "syncget"
    /\ LET expected == ClaimedPosture(mgr[d].activeGrants, d)
           stale == {k \in devicePosture[d] :
                        <<d, k>> \notin expected /\ HasCustomPrefix(k)}
       IN \E order \in Orderings(stale) :
             mgr' = [mgr EXCEPT ![d] = Proceed([@ EXCEPT
                 !.handler = "prune",
                 !.todo = [i \in DOMAIN order |->
                              [op |-> "delete", device |-> d, key |-> order[i]]]])]
    /\ UNCHANGED <<user, now, req, lpc, state, timer, revokeCh, extendCh, gate,
                   deviceTags, devicePosture, rec, budget, hist>>

\* The code after sel.Select, in the workflow task that follows the last
\* activity of the handler: complete, continue as new, or select again.
MgrLoopEnd(d) ==
    /\ mgr[d].running
    /\ mgr[d].pc = "after"
    /\ mgr' = [mgr EXCEPT ![d] = AfterSelect(@)]
    /\ hist' = HistAfterSelect(hist, mgr[d], d)
    /\ UNCHANGED <<user, now, req, lpc, state, timer, revokeCh, extendCh, gate,
                   deviceTags, devicePosture, rec, budget>>

-----------------------------------------------------------------------------
(* ReconciliationWorkflow *)

\* ListDevices: every device of the tailnet, in the order the Tailscale
\* API returns them, which nothing fixes.
ListDevices == Orderings(DOMAIN deviceTags)

\* A partition that counts every listed tag among the others.
partitionTagsKeepsAll(tags, grantTagSet) ==
    [grant |-> SelectSeq(tags, LAMBDA t : t \in grantTagSet),
     other |-> tags]

\* partitionTags: the listed tags that are grant-managed, and the others,
\* each in listed order.
partitionTags(tags, grantTagSet) ==
    [grant |-> SelectSeq(tags, LAMBDA t : t \in grantTagSet),
     other |-> SelectSeq(tags, LAMBDA t : t \notin grantTagSet)]

\* A match that only asks every actual tag to be expected.
tagsMatchSubset(actual, expected) ==
    \A i \in DOMAIN actual : actual[i] \in expected

\* tagsMatch: same length, and every actual tag expected.
tagsMatch(actual, expected) ==
    /\ Len(actual) = Cardinality(expected)
    /\ \A i \in DOMAIN actual : actual[i] \in expected

\* The reconciler moves on to the next listed device; after the last one
\* the sweep is over and it sleeps until it continues as new.
RecAdvance(r) ==
    IF r.idx < Len(r.devices)
    THEN [r EXCEPT !.pc = "posture", !.idx = @ + 1,
                   !.stalePostureKeys = {}, !.pending = {},
                   !.exists = FALSE, !.existsNow = FALSE]
    ELSE [Rec0 EXCEPT !.sweeps = r.sweeps + 1, !.instances = r.instances]

\* Observation: a sweep that began when every lifecycle had completed and
\* every manager was idle with empty channels has run to its end.
AllDone == \A g \in Grants : lpc[g] \in {"absent", "done"}

Quiet(d) ==
    \/ ~mgr[d].running
    \/ /\ mgr[d].pc = "select"
       /\ mgr[d].addCh = <<>>
       /\ mgr[d].removeCh = <<>>
       /\ mgr[d].syncCh = 0

HistAdvance(h, r) ==
    IF r.idx < Len(r.devices) THEN h ELSE [h EXCEPT !.settled = h.sweepQuiet]

\* Start of a sweep: the ListDevices activity.
RecListDevices ==
    /\ rec.pc = "sleep"
    /\ rec.instances > 0
    /\ budget.sweeps > 0
    /\ budget' = [budget EXCEPT !.sweeps = @ - 1]
    /\ \E devices \in ListDevices :
          rec' = [rec EXCEPT !.pc = "posture", !.idx = 1,
                     !.devices = [i \in DOMAIN devices |->
                         [nodeID |-> devices[i], tags |-> deviceTags[devices[i]]]]]
    /\ hist' = [hist EXCEPT !.recStale = [d \in DOMAIN hist.recStale |-> FALSE],
                            !.sweepQuiet = AllDone /\ \A d \in Devices : Quiet(d)]
    /\ UNCHANGED <<user, now, req, lpc, state, timer, revokeCh, extendCh, gate,
                   mgr, deviceTags, devicePosture>>

\* Observation: a tag of an Active grant held by the idle manager of d that
\* an external actor removed, missing from the listing and from the device.
MissingActiveTag(d, listed) ==
    /\ mgr[d].running
    /\ Quiet(d)
    /\ \E g \in DOMAIN mgr[d].activeGrants :
           /\ state[g].status = StatusActive
           /\ \E t \in Range(mgr[d].activeGrants[g].tags) :
                  /\ t \notin Range(listed)
                  /\ t \notin Range(deviceTags[d])
                  /\ <<d, t>> \in hist.extRemoved

\* Start of a device's iteration: partition its listed tags and fetch its
\* posture attributes (GetPostureAttributes); a device with neither
\* grant-managed tags nor grant-managed posture keys is skipped.
RecGetPosture ==
    /\ rec.pc = "posture"
    /\ LET dev == rec.devices[rec.idx]
           d == dev.nodeID
           part == partitionTags(dev.tags, allGrantTags)
           stale == IF allPostureKeys # {}
                    THEN devicePosture[d] \cap allPostureKeys ELSE {}
       IN IF Len(part.grant) = 0 /\ stale = {}
          THEN /\ rec' = RecAdvance(rec)
               /\ hist' = [HistAdvance(hist, rec) EXCEPT
                      !.missedDrift = IF MissingActiveTag(d, dev.tags)
                                      THEN @ \cup {d} ELSE @]
          ELSE /\ rec' = [rec EXCEPT !.pc = "probe", !.stalePostureKeys = stale]
               /\ hist' = hist
    /\ UNCHANGED <<user, now, req, lpc, state, timer, revokeCh, extendCh, gate,
                   mgr, deviceTags, devicePosture, budget>>

\* Client.DescribeWorkflowExecution of the tag manager of d: the status of
\* its latest run, or NotFound when there never was one.
DescribeWorkflowExecution(d) ==
    IF mgr[d].running THEN [err |-> "", status |-> "Running"]
    ELSE IF \E g \in Grants : req[g].targetNodeID = d /\ hist.addDelivered[g] > 0
    THEN [err |-> "", status |-> "Completed"]
    ELSE [err |-> "NotFound", status |-> ""]

\* Activities.CheckWorkflowExists: NotFound is "does not exist", any other
\* error is returned, and only a Running execution exists.
CheckWorkflowExists(desc) ==
    IF desc.err = "NotFound" THEN [exists |-> FALSE, err |-> ""]
    ELSE IF desc.err # "" THEN [exists |-> FALSE, err |-> desc.err]
    ELSE [exists |-> desc.status = "Running", err |-> ""]

\* The first CheckWorkflowExists probe of the device's tag manager.
RecProbe ==
    /\ rec.pc = "probe"
    /\ LET dev == rec.devices[rec.idx]
           exists == CheckWorkflowExists(DescribeWorkflowExecution(dev.nodeID)).exists
       IN IF exists
          THEN rec' = [rec EXCEPT !.pc = "query", !.exists = TRUE]
          ELSE rec' = [rec EXCEPT !.pc = "reprobe", !.exists = FALSE]
    /\ UNCHANGED <<user, now, req, lpc, state, timer, revokeCh, extendCh, gate,
                   mgr, deviceTags, devicePosture, budget, hist>>

\* A second probe whose result is ignored.
RecReprobeIgnored ==
    /\ rec.pc = "reprobe"
    /\ LET dev == rec.devices[rec.idx]
           existsNow == mgr[dev.nodeID].running
           part == partitionTags(dev.tags, allGrantTags)
       IN rec' = [rec EXCEPT !.existsNow = existsNow,
                             !.pending = rec.stalePostureKeys,
                             !.pc = IF Len(part.grant) > 0
                                    THEN "cleanup" ELSE "delposture"]
    /\ hist' = hist
    /\ UNCHANGED <<user, now, req, lpc, state, timer, revokeCh, extendCh, gate,
                   mgr, deviceTags, devicePosture, budget>>

\* The second CheckWorkflowExists probe: a manager that appeared in the
\* meantime makes the sweep skip the device; otherwise the cleanup starts,
\* with the tags when grant tags were listed.
RecReprobe ==
    /\ rec.pc = "reprobe"
    /\ LET dev == rec.devices[rec.idx]
           existsNow == CheckWorkflowExists(DescribeWorkflowExecution(dev.nodeID)).exists
           part == partitionTags(dev.tags, allGrantTags)
       IN IF existsNow
          THEN rec' = RecAdvance(rec)
          ELSE rec' = [rec EXCEPT !.existsNow = FALSE,
                                  !.pending = rec.stalePostureKeys,
                                  !.pc = IF Len(part.grant) > 0
                                         THEN "cleanup" ELSE "delposture"]
    /\ hist' = IF rec'.pc = "sleep" THEN HistAdvance(hist, rec) ELSE hist
    /\ UNCHANGED <<user, now, req, lpc, state, timer, revokeCh, extendCh, gate,
                   mgr, deviceTags, devicePosture, budget>>

\* Observation: the tags of Active grants that a write of newTags takes off
\* the device after the running manager of d has finished applying them.
LiveTagsLost(d, newTags) ==
    {t \in Range(deviceTags[d]) \ Range(newTags) :
        /\ mgr[d].running
        /\ mgr[d].pc = "select"
        /\ \E g \in DOMAIN mgr[d].activeGrants :
               /\ state[g].status = StatusActive
               /\ t \in Range(mgr[d].activeGrants[g].tags)}

\* Stale cleanup of tags: SetDeviceTags with the listed non-grant tags.
RecCleanup ==
    /\ rec.pc = "cleanup"
    /\ LET dev == rec.devices[rec.idx]
           d == dev.nodeID
           part == partitionTags(dev.tags, allGrantTags)
           r == IF rec.pending = {} THEN RecAdvance(rec)
                ELSE [rec EXCEPT !.pc = "delposture"]
       IN /\ deviceTags' = [deviceTags EXCEPT ![d] = part.other]
          /\ rec' = r
          /\ hist' = [(IF r.pc = "sleep" THEN HistAdvance(hist, rec) ELSE hist) EXCEPT
                 !.mgrStale[d] = mgr[d].running /\ mgr[d].pc = "set",
                 !.recStale[d] = FALSE,
                 !.interleaved = IF hist.recStale[d] THEN @ \cup {d} ELSE @,
                 !.cleanedLive = @ \cup {<<d, t>> : t \in LiveTagsLost(d, part.other)},
                 !.recCleaned = @ \cup
                     {t \in Range(deviceTags[d]) : t \notin Range(part.other)},
                 !.recDropped = @ \cup
                     {<<d, t>> : t \in (Range(deviceTags[d]) \ allGrantTags)
                                           \ Range(part.other)}]
    /\ UNCHANGED <<user, now, req, lpc, state, timer, revokeCh, extendCh, gate,
                   mgr, devicePosture, budget>>

\* Stale cleanup of posture: DeletePostureAttribute for each observed
\* grant-managed key (in map iteration order, which is arbitrary).
RecDeletePosture ==
    /\ rec.pc = "delposture"
    /\ LET d == rec.devices[rec.idx].nodeID IN
         \E k \in rec.pending :
            LET r == IF rec.pending = {k} THEN RecAdvance(rec)
                     ELSE [rec EXCEPT !.pending = @ \ {k}]
            IN /\ devicePosture' = [devicePosture EXCEPT ![d] = @ \ {k}]
               /\ rec' = r
               /\ hist' = [(IF r.pc = "sleep" THEN HistAdvance(hist, rec) ELSE hist) EXCEPT
                      !.recDeletedKeys = IF k \in devicePosture[d]
                                         THEN @ \cup {k} ELSE @,
                      !.cleanedLiveKeys = IF /\ mgr[d].running
                                         /\ mgr[d].pc = "select"
                                         /\ k \in devicePosture[d]
                                         /\ \E g \in DOMAIN mgr[d].activeGrants :
                                                /\ state[g].status = StatusActive
                                                /\ <<d, k>> \in ClaimedPosture(
                                                       mgr[d].activeGrants, d)
                                      THEN @ \cup {<<d, k>>} ELSE @]
    /\ UNCHANGED <<user, now, req, lpc, state, timer, revokeCh, extendCh, gate,
                   mgr, deviceTags, budget>>

\* The target-scoped posture keys the active grants expect on the device.
expectedPostureKeys(activeGrants) ==
    UNION {{activeGrants[g].postureAttributes[i].key :
               i \in {j \in DOMAIN activeGrants[g].postureAttributes :
                         activeGrants[g].postureAttributes[j].target = "target"}} :
           g \in DOMAIN activeGrants}

\* A manager is running: query its active grants; when the listed grant
\* tags differ from the tags the active grants claim or an observed
\* grant-managed posture key is not expected, go on to signal sync.
RecQuery ==
    /\ rec.pc = "query"
    /\ LET dev == rec.devices[rec.idx]
           d == dev.nodeID
           part == partitionTags(dev.tags, allGrantTags)
           expectedGrantTags == ActiveTags(mgr[d].activeGrants)
           tagDrift == Len(part.grant) > 0 /\ ~tagsMatch(part.grant, expectedGrantTags)
           postureDrift == \E k \in rec.stalePostureKeys :
                               k \notin expectedPostureKeys(mgr[d].activeGrants)
           sync == tagDrift \/ postureDrift
       IN /\ rec' = IF sync THEN [rec EXCEPT !.pc = "signal"] ELSE RecAdvance(rec)
          /\ hist' = [(IF sync THEN hist ELSE HistAdvance(hist, rec)) EXCEPT
                 !.missedDrift = IF ~sync /\ MissingActiveTag(d, dev.tags)
                                 THEN @ \cup {d} ELSE @]
    /\ UNCHANGED <<user, now, req, lpc, state, timer, revokeCh, extendCh, gate,
                   mgr, deviceTags, devicePosture, budget>>

\* SignalExternalWorkflow of the sync signal to the device's manager; the
\* signal reaches the manager only if it is still running, and the result
\* of the call is not looked at.
RecSignalSync ==
    /\ rec.pc = "signal"
    /\ LET d == rec.devices[rec.idx].nodeID IN
         IF mgr[d].running
         THEN /\ \E s \in Arrivals(mgr[d].sel, MgrBlocked(mgr[d]), "sync") :
                    mgr' = [mgr EXCEPT ![d].sel = s, ![d].syncCh = @ + 1]
              /\ hist' = [HistAdvance(hist, rec) EXCEPT
                             !.order[d] = Append(@, "sync")]
         ELSE /\ mgr' = mgr
              /\ hist' = HistAdvance(hist, rec)
    /\ rec' = RecAdvance(rec)
    /\ UNCHANGED <<user, now, req, lpc, state, timer, revokeCh, extendCh, gate,
                   deviceTags, devicePosture, budget>>

-----------------------------------------------------------------------------
(* ReconciliationWorkflow: activities that fail after their retries *)

\* The describe calls that fail for a reason other than NotFound.
DescribeFailures == {[err |-> "Unavailable", status |-> ""]}

UseFault(h, activity, d) ==
    /\ budget.faults > 0
    /\ budget' = [budget EXCEPT !.faults = @ - 1]
    /\ hist' = [h EXCEPT !.failed = @ \cup {<<activity, d>>}]

\* A ListDevices failure that ends the workflow with the error.
RecListDevicesFailsStops ==
    /\ rec.pc = "sleep"
    /\ rec.instances > 0
    /\ budget.sweeps > 0
    /\ budget.faults > 0
    /\ budget' = [budget EXCEPT !.sweeps = @ - 1, !.faults = @ - 1]
    /\ hist' = [hist EXCEPT !.failed = @ \cup {<<"ListDevices", "">>}]
    /\ rec' = [rec EXCEPT !.instances = 0]
    /\ UNCHANGED <<user, now, req, lpc, state, timer, revokeCh, extendCh, gate,
                   mgr, deviceTags, devicePosture>>

\* ListDevices fails: the sweep is over, sleep and continue as new.
RecListDevicesFails ==
    /\ rec.pc = "sleep"
    /\ rec.instances > 0
    /\ budget.sweeps > 0
    /\ budget.faults > 0
    /\ budget' = [budget EXCEPT !.sweeps = @ - 1, !.faults = @ - 1]
    /\ hist' = [hist EXCEPT !.failed = @ \cup {<<"ListDevices", "">>}]
    /\ rec' = [Rec0 EXCEPT !.sweeps = rec.sweeps + 1, !.instances = rec.instances]
    /\ UNCHANGED <<user, now, req, lpc, state, timer, revokeCh, extendCh, gate,
                   mgr, deviceTags, devicePosture>>

\* GetPostureAttributes fails: the device is treated as having no observed
\* grant-managed posture key.
RecGetPostureFails ==
    /\ rec.pc = "posture"
    /\ allPostureKeys # {}
    /\ LET dev == rec.devices[rec.idx]
           part == partitionTags(dev.tags, allGrantTags)
       IN IF Len(part.grant) = 0
          THEN /\ rec' = RecAdvance(rec)
               /\ UseFault(HistAdvance(hist, rec), "GetPostureAttributes", dev.nodeID)
          ELSE /\ rec' = [rec EXCEPT !.pc = "probe", !.stalePostureKeys = {}]
               /\ UseFault(hist, "GetPostureAttributes", dev.nodeID)
    /\ UNCHANGED <<user, now, req, lpc, state, timer, revokeCh, extendCh, gate,
                   mgr, deviceTags, devicePosture>>

\* A failed first probe handled as "no manager": straight to the cleanup.
RecProbeFailsAsAbsent ==
    /\ rec.pc = "probe"
    /\ LET dev == rec.devices[rec.idx]
           part == partitionTags(dev.tags, allGrantTags)
       IN /\ rec' = [rec EXCEPT !.exists = FALSE, !.existsNow = FALSE,
                                !.pending = rec.stalePostureKeys,
                                !.pc = IF Len(part.grant) > 0
                                       THEN "cleanup" ELSE "delposture"]
          /\ UseFault(hist, "CheckWorkflowExists", dev.nodeID)
    /\ UNCHANGED <<user, now, req, lpc, state, timer, revokeCh, extendCh, gate,
                   mgr, deviceTags, devicePosture>>

\* The first probe fails: the device is left alone in this sweep.
RecProbeFails ==
    /\ rec.pc = "probe"
    /\ \E desc \in DescribeFailures :
          /\ CheckWorkflowExists(desc).err # ""
          /\ rec' = RecAdvance(rec)
          /\ UseFault(HistAdvance(hist, rec), "CheckWorkflowExists",
                      rec.devices[rec.idx].nodeID)
    /\ UNCHANGED <<user, now, req, lpc, state, timer, revokeCh, extendCh, gate,
                   mgr, deviceTags, devicePosture>>

\* The re-probe fails: the device is left alone in this sweep.
RecReprobeFails ==
    /\ rec.pc = "reprobe"
    /\ \E desc \in DescribeFailures :
          /\ CheckWorkflowExists(desc).err # ""
          /\ rec' = RecAdvance(rec)
          /\ UseFault(HistAdvance(hist, rec), "CheckWorkflowExists (re-check)",
                      rec.devices[rec.idx].nodeID)
    /\ UNCHANGED <<user, now, req, lpc, state, timer, revokeCh, extendCh, gate,
                   mgr, deviceTags, devicePosture>>

\* SetDeviceTags of the stale cleanup fails: logged, the posture cleanup
\* follows.
RecCleanupFails ==
    /\ rec.pc = "cleanup"
    /\ LET r == IF rec.pending = {} THEN RecAdvance(rec)
                ELSE [rec EXCEPT !.pc = "delposture"]
       IN /\ rec' = r
          /\ UseFault(IF r.pc = "sleep" THEN HistAdvance(hist, rec) ELSE hist,
                      "SetDeviceTags", rec.devices[rec.idx].nodeID)
    /\ UNCHANGED <<user, now, req, lpc, state, timer, revokeCh, extendCh, gate,
                   mgr, deviceTags, devicePosture>>

\* A DeletePostureAttribute of the stale cleanup fails: logged, the next
\* key follows.
RecDeletePostureFails ==
    /\ rec.pc = "delposture"
    /\ \E k \in rec.pending :
          LET r == IF rec.pending = {k} THEN RecAdvance(rec)
                   ELSE [rec EXCEPT !.pending = @ \ {k}]
          IN /\ rec' = r
             /\ UseFault(IF r.pc = "sleep" THEN HistAdvance(hist, rec) ELSE hist,
                         "DeletePostureAttribute", rec.devices[rec.idx].nodeID)
    /\ UNCHANGED <<user, now, req, lpc, state, timer, revokeCh, extendCh, gate,
                   mgr, deviceTags, devicePosture>>

\* QueryActiveGrants fails: sync is signalled without a drift check.
RecQueryFails ==
    /\ rec.pc = "query"
    /\ rec' = [rec EXCEPT !.pc = "signal"]
    /\ UseFault(hist, "QueryActiveGrants", rec.devices[rec.idx].nodeID)
    /\ UNCHANGED <<user, now, req, lpc, state, timer, revokeCh, extendCh, gate,
                   mgr, deviceTags, devicePosture>>

RecFaults ==
    \/ RecListDevicesFails
    \/ RecGetPostureFails
    \/ RecProbeFails
    \/ RecReprobeFails
    \/ RecCleanupFails
    \/ RecDeletePostureFails
    \/ RecQueryFails

-----------------------------------------------------------------------------
(* DeviceTagManagerWorkflow: activities that fail after their retries *)

\* applyTags, GetDeviceTags fails: applyTags returns the error, the handler
\* logs it and goes on to its posture attributes.
MgrGetTagsFails(d) ==
    /\ mgr[d].running
    /\ mgr[d].pc = "get"
    /\ mgr' = [mgr EXCEPT ![d] = Proceed(@)]
    /\ UseFault(hist, "GetDeviceTags", d)
    /\ UNCHANGED <<user, now, req, lpc, state, timer, revokeCh, extendCh, gate,
                   deviceTags, devicePosture, rec>>

\* applyTags, SetDeviceTags fails: nothing is written, the handler logs the
\* error and goes on to its posture attributes.
MgrSetTagsFails(d) ==
    /\ mgr[d].running
    /\ mgr[d].pc = "set"
    /\ mgr' = [mgr EXCEPT ![d] = Proceed(@)]
    /\ UseFault([hist EXCEPT !.mgrStale[d] = FALSE], "SetDeviceTags", d)
    /\ UNCHANGED <<user, now, req, lpc, state, timer, revokeCh, extendCh, gate,
                   deviceTags, devicePosture, rec>>

\* A SetPostureAttribute or DeletePostureAttribute call fails.  In
\* applyPostureAttributes and removePostureAttributes the loop returns the
\* error, which ends the handler (a sync does not go on to its diff); in
\* the diff of a sync the error is logged and the loop goes on.
MgrPostureFails(d) ==
    /\ mgr[d].running
    /\ mgr[d].pc = "posture"
    /\ mgr' = [mgr EXCEPT ![d] =
                  IF @.handler = "prune"
                  THEN Proceed([@ EXCEPT !.todo = Tail(@)])
                  ELSE [@ EXCEPT !.todo = <<>>, !.pc = "after"]]
    /\ UseFault(hist, Head(mgr[d].todo).op, d)
    /\ UNCHANGED <<user, now, req, lpc, state, timer, revokeCh, extendCh, gate,
                   deviceTags, devicePosture, rec>>

\* syncPostureAttributes, GetPostureAttributes fails: a warning is logged
\* and the sync ends without its diff.
MgrSyncGetFails(d) ==
    /\ mgr[d].running
    /\ mgr[d].pc = "syncget"
    /\ mgr' = [mgr EXCEPT ![d].pc = "after"]
    /\ UseFault(hist, "GetPostureAttributes", d)
    /\ UNCHANGED <<user, now, req, lpc, state, timer, revokeCh, extendCh, gate,
                   deviceTags, devicePosture, rec>>

MgrFaults(d) ==
    \/ MgrGetTagsFails(d)
    \/ MgrSetTagsFails(d)
    \/ MgrPostureFails(d)
    \/ MgrSyncGetFails(d)

-----------------------------------------------------------------------------
(* tailgrant-worker *)

\* A worker start that gives each ReconciliationWorkflow a workflow id of
\* its own.
WorkerStartOwnID ==
    /\ budget.workers > 0
    /\ budget' = [budget EXCEPT !.workers = @ - 1]
    /\ rec' = [rec EXCEPT !.instances = @ + 1]
    /\ UNCHANGED <<user, now, req, lpc, state, timer, revokeCh, extendCh, gate, mgr,
                   deviceTags, devicePosture, hist>>

\* A worker starts (or restarts): ExecuteWorkflow of ReconciliationWorkflow
\* under the fixed workflow id "reconciliation".  The server keeps at most
\* one running execution per workflow id, so the call starts a run only
\* when none is running.
WorkerStart ==
    /\ budget.workers > 0
    /\ budget' = [budget EXCEPT !.workers = @ - 1]
    /\ rec' = IF rec.instances = 0 THEN [rec EXCEPT !.instances = 1] ELSE rec
    /\ UNCHANGED <<user, now, req, lpc, state, timer, revokeCh, extendCh, gate, mgr,
                   deviceTags, devicePosture, hist>>

-----------------------------------------------------------------------------
(* An external actor (an administrator, another tool) editing device tags *)

ExternalAddTag(d, t) ==
    /\ budget.external > 0
    /\ t \notin Range(deviceTags[d])
    /\ deviceTags' = [deviceTags EXCEPT ![d] = Append(@, t)]
    /\ budget' = [budget EXCEPT !.external = @ - 1]
    /\ hist' = [hist EXCEPT !.sweepQuiet = FALSE, !.settled = FALSE]
    /\ UNCHANGED <<user, now, req, lpc, state, timer, revokeCh, extendCh, gate,
                   mgr, rec, devicePosture>>

ExternalRemoveTag(d, t) ==
    /\ budget.external > 0
    /\ t \in Range(deviceTags[d])
    /\ deviceTags' = [deviceTags EXCEPT ![d] = SelectSeq(@, LAMBDA x : x # t)]
    /\ budget' = [budget EXCEPT !.external = @ - 1]
    /\ hist' = [hist EXCEPT !.extRemoved = @ \cup {<<d, t>>},
                            !.sweepQuiet = FALSE, !.settled = FALSE]
    /\ UNCHANGED <<user, now, req, lpc, state, timer, revokeCh, extendCh, gate,
                   mgr, rec, devicePosture>>

ExternalSetPosture(d, k) ==
    /\ budget.external > 0
    /\ k \notin devicePosture[d]
    /\ devicePosture' = [devicePosture EXCEPT ![d] = @ \cup {k}]
    /\ budget' = [budget EXCEPT !.external = @ - 1]
    /\ hist' = [hist EXCEPT !.sweepQuiet = FALSE, !.settled = FALSE]
    /\ UNCHANGED <<user, now, req, lpc, state, timer, revokeCh, extendCh, gate,
                   mgr, deviceTags, rec>>

ExternalDeletePosture(d, k) ==
    /\ budget.external > 0
    /\ k \in devicePosture[d]
    /\ devicePosture' = [devicePosture EXCEPT ![d] = @ \ {k}]
    /\ budget' = [budget EXCEPT !.external = @ - 1]
    /\ hist' = [hist EXCEPT !.sweepQuiet = FALSE, !.settled = FALSE]
    /\ UNCHANGED <<user, now, req, lpc, state, timer, revokeCh, extendCh, gate,
                   mgr, deviceTags, rec>>

-----------------------------------------------------------------------------
(* Initial states and specifications *)

\* Requests are accepted by HandleCreateGrant only with
\* 0 < duration <= maxDuration.
Durations == 1..MaxDur

\* One grant request made through HandleCreateGrant: of a type the grant
\* type store holds, low-risk or gated with at least one approver.
SingleRequests ==
    {[g \in Grants |-> IF g = "g1" THEN GrantRequest("g1", "u@x", "d1", dur, gt)
                       ELSE NoRequest] :
        dur \in Durations,
        gt \in {TypeA, TypeOps, TypeAdmin(<<"a@x">>), TypeAdmin(<<"u@x", "a@x">>)}}

\* One GrantWorkflow executed by a Temporal client with a GrantType built
\* by hand: low-risk, or high-risk with any approver list, the empty one
\* included.
DirectRequests ==
    {[g \in Grants |-> IF g = "g1" THEN GrantRequest("g1", "u@x", "d1", dur, gt)
                       ELSE NoRequest] :
        dur \in Durations,
        gt \in {TypeA, TypeAdmin(<<>>), TypeAdmin(<<"a@x">>),
                TypeAdmin(<<"u@x", "a@x">>)}}

\* Two low-risk requests on the same device, sharing tag 1.
PairRequests ==
    {[g \in Grants |-> IF g = "g1" THEN GrantRequest("g1", "u@x", "d1", 1, TypeA)
                       ELSE GrantRequest("g2", "b@x", "d1", 1, TypeAZ)]}

InitWith(requests, b) ==
    /\ now = 0
    /\ req \in requests
    /\ lpc = [g \in Grants |-> IF req[g].id = "" THEN "absent" ELSE "start"]
    /\ state = [g \in Grants |-> GrantState0]
    /\ timer = [g \in Grants |-> NoTime]
    /\ revokeCh = [g \in Grants |-> <<>>]
    /\ extendCh = [g \in Grants |-> <<>>]
    /\ gate = [g \in Grants |-> Gate0]
    /\ mgr = [d \in Devices |-> Mgr0]
    /\ deviceTags \in [Devices -> {<<>>, <<2>>}]
    /\ devicePosture = [d \in Devices |-> {}]
    /\ rec = [Rec0 EXCEPT !.instances = IF b.workers > 0 THEN 0 ELSE 1]
    /\ user = User0
    /\ budget = b
    /\ hist = [Hist0 EXCEPT !.initTags = deviceTags]

Lifecycle ==
    \E g \in Grants :
        \/ LifeStart(g)
        \/ LifeApprovalResult(g)
        \/ LifeAddGrant(g)
        \/ LifeActivate(g)
        \/ LifeExpire(g)
        \/ LifeRevoke(g)
        \/ LifeExtend(g)
        \/ LifeRevert(g)
        \/ LifeReturn(g)

\* The lifecycle of low-risk grants that end by revocation.
LifecycleRevoked ==
    \E g \in Grants :
        \/ LifeStart(g)
        \/ LifeAddGrant(g)
        \/ LifeActivate(g)
        \/ LifeRevoke(g)
        \/ LifeRevert(g)
        \/ LifeReturn(g)

Gate ==
    \E g \in Grants :
        \/ GateApprove(g)
        \/ GateDeny(g)
        \/ GateTimeout(g)

Manager ==
    \E d \in Devices :
        \/ MgrAdd(d)
        \/ MgrRemove(d)
        \/ MgrSync(d)
        \/ MgrGetTags(d)
        \/ MgrSetTags(d)
        \/ MgrPosture(d)
        \/ MgrSyncGet(d)
        \/ MgrLoopEnd(d)

Reconciler ==
    \/ RecListDevices
    \/ RecGetPosture
    \/ RecProbe
    \/ RecReprobe
    \/ RecCleanup
    \/ RecDeletePosture
    \/ RecQuery
    \/ RecSignalSync

External ==
    \E d \in Devices, t \in Tags :
        \/ ExternalAddTag(d, t)
        \/ ExternalRemoveTag(d, t)

\* The approval requests of the HTTP API: HandleApproveGrant and
\* HandleDenyGrant.
GateSignals ==
    \E g \in Grants, who \in Identities :
        \/ HandleApproveQuery(g, who)
        \/ HandleApproveSignal(g, who)
        \/ SignalDeny(g, who)

\* Approve and deny signalled to the ApprovalWorkflow by a Temporal client.
ClientSignals ==
    \E g \in Grants, who \in Identities :
        \/ SignalApprove(g, who)
        \/ SignalDeny(g, who)

LifeSignals ==
    \E g \in Grants, who \in {"a@x"} :
        \/ SignalRevoke(g, who)
        \/ \E duration \in 1..(MaxDur + 1) : SignalExtend(g, who, duration)

\* One grant requested and approved through the HTTP API, through its
\* whole lifecycle, with the clock and all four kinds of signal.
InitOne ==
    InitWith(SingleRequests,
             [approving |-> {}, signals |-> MaxSignals, external |-> 0, sweeps |-> 0,
              horizon |-> MaxTime, workers |-> 0, faults |-> 0])

NextOne ==
    \/ Lifecycle
    \/ Gate
    \/ GateSignals
    \/ LifeSignals
    \/ \E g \in Grants : LifeActivateFails(g)
    \/ \E g \in Grants : LifeReturnError(g)
    \/ Tick
    \/ \E d \in Devices : MgrAdd(d)
    \/ \E d \in Devices : MgrRemove(d)
    \/ \E d \in Devices : MgrGetTags(d)
    \/ \E d \in Devices : MgrSetTags(d)
    \/ \E d \in Devices : MgrLoopEnd(d)

SpecOne == InitOne /\ [][NextOne]_vars

\* One grant whose workflows a Temporal client executes and signals
\* itself.
InitGate ==
    InitWith(DirectRequests,
             [approving |-> {}, signals |-> MaxSignals, external |-> 0, sweeps |-> 0,
              horizon |-> MaxTime, workers |-> 0, faults |-> 0])

NextGate ==
    \/ Lifecycle
    \/ Gate
    \/ ClientSignals
    \/ LifeSignals
    \/ \E g \in Grants : LifeActivateFails(g)
    \/ \E g \in Grants : LifeReturnError(g)
    \/ Tick
    \/ \E d \in Devices : MgrAdd(d)
    \/ \E d \in Devices : MgrRemove(d)
    \/ \E d \in Devices : MgrGetTags(d)
    \/ \E d \in Devices : MgrSetTags(d)
    \/ \E d \in Devices : MgrLoopEnd(d)

SpecGate == InitGate /\ [][NextGate]_vars

\* The same, with the clock advancing, due timers firing and the workflow
\* tasks of the gate and of the Active loop always eventually run.
SpecOneLive ==
    /\ SpecOne
    /\ WF_vars(Tick)
    /\ \A g \in Grants : WF_vars(GateApprove(g))
    /\ \A g \in Grants : WF_vars(GateDeny(g))
    /\ \A g \in Grants : WF_vars(GateTimeout(g))
    /\ \A g \in Grants : WF_vars(LifeExpire(g))
    /\ \A g \in Grants : WF_vars(LifeRevoke(g))
    /\ \A g \in Grants : WF_vars(LifeExtend(g))
    /\ \A g \in Grants : WF_vars(LifeRevert(g))
    /\ \A g \in Grants : WF_vars(LifeReturn(g))

\* Two overlapping grants on one device, the reconciler and an external
\* actor; the grants end by revocation or by expiry.
InitStart ==
    InitWith(PairRequests,
             [approving |-> {}, signals |-> MaxSignals, external |-> MaxExternal,
              sweeps |-> MaxSweeps, horizon |-> 0, workers |-> 0, faults |-> 0])

\* The same deployment later in the life of the manager of d1: g1 was
\* activated and is in its Active loop, the run of the manager holds g1 and
\* has handled one signal less than tagManagerContinueAsNewThreshold (the
\* AddGrant of g1 and Syncs of earlier sweeps), so that the next handler
\* ends the run by continue-as-new; g2 has not started yet.
InitNearThreshold ==
    /\ now = 0
    /\ req \in PairRequests
    /\ lpc = [g \in Grants |-> IF g = "g1" THEN "active" ELSE "start"]
    /\ state = [g \in Grants |->
                   IF g = "g1"
                   THEN [GrantState0 EXCEPT !.status = StatusActive,
                                            !.activatedAt = 0,
                                            !.expiresAt = req[g].duration]
                   ELSE GrantState0]
    /\ timer = [g \in Grants |-> IF g = "g1" THEN req[g].duration ELSE NoTime]
    /\ revokeCh = [g \in Grants |-> <<>>]
    /\ extendCh = [g \in Grants |-> <<>>]
    /\ gate = [g \in Grants |-> Gate0]
    /\ mgr = [d \in Devices |->
                 IF d = "d1"
                 THEN [Mgr0 EXCEPT
                          !.running = TRUE,
                          !.activeGrants =
                              [g \in {"g1"} |->
                                  [tags |-> req[g].grantType.tags,
                                   postureAttributes |->
                                       req[g].grantType.postureAttributes,
                                   requesterNodeID |-> req[g].requesterNode]],
                          !.signalCount = tagManagerContinueAsNewThreshold - 1]
                 ELSE Mgr0]
    /\ \E before \in [Devices -> {<<>>, <<2>>}] :
          /\ deviceTags = [d \in Devices |->
                              IF d = "d1"
                              THEN computeDesiredTags(before[d], mgr[d].activeGrants, <<>>)
                              ELSE before[d]]
          /\ hist = [Hist0 EXCEPT !.initTags = before, !.addDelivered["g1"] = 1]
    /\ devicePosture = [d \in Devices |-> {}]
    /\ rec = Rec0
    /\ user = User0
    /\ budget = [approving |-> {}, signals |-> MaxSignals, external |-> MaxExternal,
                 sweeps |-> MaxSweeps, horizon |-> 0, workers |-> 0, faults |-> 0]

Init == InitStart \/ InitNearThreshold

\* The grant types requested here set no posture attribute and nothing
\* else puts one on the device, so the posture calls of the manager and of
\* the reconciler's cleanup have nothing to do and are left out.
Next ==
    \/ LifecycleRevoked
    \/ \E d \in Devices : MgrAdd(d)
    \/ \E d \in Devices : MgrRemove(d)
    \/ \E d \in Devices : MgrSync(d)
    \/ \E d \in Devices : MgrGetTags(d)
    \/ \E d \in Devices : MgrSetTags(d)
    \/ \E d \in Devices : MgrSyncGet(d)
    \/ \E d \in Devices : MgrLoopEnd(d)
    \/ RecListDevices
    \/ RecGetPosture
    \/ RecProbe
    \/ RecReprobe
    \/ RecCleanup
    \/ RecQuery
    \/ RecSignalSync
    \/ External
    \/ \E g \in Grants : SignalRevoke(g, "a@x")

Spec == Init /\ [][Next]_vars

\* One low-risk grant of any tag or posture type on a device that the
\* reconciler sweeps while an external actor edits its tags and posture
\* attributes.
SweepRequests ==
    {[g \in Grants |-> IF g = "g1" THEN GrantRequest("g1", "u@x", "d1", 1, gt)
                       ELSE NoRequest] :
        gt \in {TypeA, TypeAZ, TypePosture, TypeTagPosture}}

ExternalPosture ==
    \E d \in Devices, k \in PostureKeys :
        \/ ExternalSetPosture(d, k)
        \/ ExternalDeletePosture(d, k)

InitSweep ==
    InitWith(SweepRequests,
             [approving |-> {}, signals |-> 1, external |-> MaxExternal + 1,
              sweeps |-> MaxSweeps, horizon |-> 0, workers |-> 0, faults |-> 0])

NextSweep ==
    \/ LifecycleRevoked
    \/ Manager
    \/ Reconciler
    \/ External
    \/ ExternalPosture
    \/ \E g \in Grants : SignalRevoke(g, "a@x")

SpecSweep == InitSweep /\ [][NextSweep]_vars

\* Two overlapping low-risk grants on one device, the second with a tag and
\* a target-scoped posture attribute, the reconciler, and an external actor
\* that can put a grant-managed tag or posture key on the device.
TagPostureRequests ==
    {[g \in Grants |-> IF g = "g1" THEN GrantRequest("g1", "u@x", "d1", 1, TypeA)
                       ELSE GrantRequest("g2", "b@x", "d1", 1, TypeTagPosture)]}

\* g1 has been activated: it is in its Active loop, the manager of d1 has
\* handled its AddGrant and written its tag; g2 has not started yet.
InitPair ==
    /\ now = 0
    /\ req \in TagPostureRequests
    /\ lpc = [g \in Grants |-> IF g = "g1" THEN "active" ELSE "start"]
    /\ state = [g \in Grants |->
                   IF g = "g1"
                   THEN [GrantState0 EXCEPT !.status = StatusActive,
                                            !.activatedAt = 0,
                                            !.expiresAt = req[g].duration]
                   ELSE GrantState0]
    /\ timer = [g \in Grants |-> IF g = "g1" THEN req[g].duration ELSE NoTime]
    /\ revokeCh = [g \in Grants |-> <<>>]
    /\ extendCh = [g \in Grants |-> <<>>]
    /\ gate = [g \in Grants |-> Gate0]
    /\ mgr = [d \in Devices |->
                 [Mgr0 EXCEPT
                     !.running = TRUE,
                     !.activeGrants =
                         [g \in {"g1"} |->
                             [tags |-> req[g].grantType.tags,
                              postureAttributes |->
                                  req[g].grantType.postureAttributes,
                              requesterNodeID |-> req[g].requesterNode]],
                     !.signalCount = 1]]
    /\ deviceTags = [d \in Devices |->
                        computeDesiredTags(<<>>, mgr[d].activeGrants, <<>>)]
    /\ devicePosture = [d \in Devices |-> {}]
    /\ rec = Rec0
    /\ user = User0
    /\ budget = [approving |-> {}, signals |-> MaxSignals,
                 external |-> MaxExternal + 1, sweeps |-> MaxSweeps,
                 horizon |-> 0, workers |-> 0, faults |-> 0]
    /\ hist = [Hist0 EXCEPT !.addDelivered["g1"] = 1]

NextPair ==
    \/ LifecycleRevoked
    \/ Manager
    \/ Reconciler
    \/ \E d \in Devices : ExternalAddTag(d, 1)
    \/ \E d \in Devices : ExternalSetPosture(d, KeyP)
    \/ \E g \in Grants : SignalRevoke(g, "a@x")

SpecPair == InitPair /\ [][NextPair]_vars

\* The same, with every workflow that can take a step taking it.
SpecPairLive ==
    /\ SpecPair
    /\ WF_vars(LifecycleRevoked)
    /\ WF_vars(Manager)
    /\ WF_vars(Reconciler)

\* One grant whose approvals come in through the HTTP API.
NextApi ==
    \/ \E g \in Grants : LifeStart(g)
    \/ \E g \in Grants : LifeApprovalResult(g)
    \/ \E g \in Grants : LifeAddGrant(g)
    \/ \E g \in Grants : LifeActivate(g)
    \/ \E g \in Grants : LifeExpire(g)
    \/ \E g \in Grants : LifeRevert(g)
    \/ \E g \in Grants : LifeReturn(g)
    \/ \E g \in Grants : GateApprove(g)
    \/ \E g \in Grants : GateTimeout(g)
    \/ \E g \in Grants, who \in Identities : HandleApproveQuery(g, who)
    \/ \E g \in Grants, who \in Identities : HandleApproveSignal(g, who)
    \/ Tick
    \/ \E d \in Devices : MgrAdd(d)
    \/ \E d \in Devices : MgrRemove(d)
    \/ \E d \in Devices : MgrGetTags(d)
    \/ \E d \in Devices : MgrSetTags(d)
    \/ \E d \in Devices : MgrLoopEnd(d)

SpecApi == InitOne /\ [][NextApi]_vars

\* Workers starting and restarting around the sweeps of one grant's device.
InitWorkers ==
    InitWith(SweepRequests,
             [approving |-> {}, signals |-> 1, external |-> MaxExternal,
              sweeps |-> MaxSweeps, horizon |-> 0, workers |-> MaxWorkers, faults |-> 0])

NextWorkers ==
    \/ NextSweep
    \/ WorkerStart

SpecWorkers == InitWorkers /\ [][NextWorkers]_vars

\* Tag lists without duplicates, in any order, up to MaxLen long.
TagLists ==
    {q \in UNION {[1..n -> Tags] : n \in 0..MaxLen} :
        \A i, j \in DOMAIN q : i # j => q[i] # q[j]}

\* The active-grants maps of a manager: any grants, each with any tag list
\* (a grant without tags is one that sets a posture attribute).
GrantMaps ==
    UNION {[G -> {[tags |-> q,
                   postureAttributes |->
                       IF q = <<>> THEN <<PostureAttribute(KeyP, "target")>>
                       ELSE <<>>,
                   requesterNodeID |-> ""] :
                     q \in TagLists}] : G \in SUBSET Grants}

\* applyTags on any device tags, active grants and removed tags that get
\* past its first check (some active grant has tags, or tags were removed;
\* an add-grant handler holds the grant it added): the manager has fetched
\* the device's tags and is about to compute and write the desired ones.
InitTags ==
    /\ now = 0
    /\ req = [g \in Grants |-> NoRequest]
    /\ lpc = [g \in Grants |-> "absent"]
    /\ state = [g \in Grants |-> GrantState0]
    /\ timer = [g \in Grants |-> NoTime]
    /\ revokeCh = [g \in Grants |-> <<>>]
    /\ extendCh = [g \in Grants |-> <<>>]
    /\ gate = [g \in Grants |-> Gate0]
    /\ \E cur \in TagLists, act \in GrantMaps, rem \in TagLists :
          /\ ActiveTags(act) # {} \/ rem # <<>>
          /\ mgr = [d \in Devices |->
                        [Mgr0 EXCEPT !.running = TRUE, !.pc = "set",
                                     !.signalCount = 1,
                                     !.handler = IF rem = <<>> THEN "add" ELSE "remove",
                                     !.activeGrants = act,
                                     !.currentTags = cur,
                                     !.removedTags = rem]]
          /\ deviceTags = [d \in Devices |-> cur]
    /\ devicePosture = [d \in Devices |-> {}]
    /\ rec = Rec0
    /\ user = User0
    /\ budget = [approving |-> {}, signals |-> 0, external |-> 0, sweeps |-> 0, horizon |-> 0,
                 workers |-> 0, faults |-> 0]
    /\ hist = [Hist0 EXCEPT !.initTags = deviceTags]

\* The devices of the tailnet that carry posture attributes: the target
\* device of the grants and a requester's own node.
Nodes == Devices \cup {"n2"}

\* Posture attribute lists of a grant type: up to MaxLen attributes, each
\* on the target or on the requester's node, no attribute twice.
PostureLists ==
    LET attrs == {PostureAttribute(k, tg) :
                     k \in PostureKeys, tg \in {"target", "requester"}}
    IN {q \in UNION {[1..n -> attrs] : n \in 0..MaxLen} :
           \A i, j \in DOMAIN q : i # j => q[i] # q[j]}

\* A request for a grant type with the posture attributes q, made from the
\* node n ("" when the requester has none).
PostureRequest(g, q, n) ==
    [GrantRequest(g, "u@x", "d1", MaxDur,
                  [GrantType("posture", <<1>>, MaxDur, RiskLow, <<>>) EXCEPT
                      !.postureAttributes = q])
        EXCEPT !.requesterNode = n]

\* The (device, key) pairs the posture attributes of grant g were set on.
GrantPairs(g) ==
    {c \in {<<resolvePostureTarget(req[g].targetNodeID, pa, req[g].requesterNode),
              pa.key>> : pa \in Range(req[g].grantType.postureAttributes)} :
        c[1] # ""}

\* The manager of d1 holds the grants that were activated; one of them has
\* just been revoked and its RemoveGrant waits in the channel.
InitPosture ==
    /\ now = 0
    /\ \E gone \in Grants, alone \in BOOLEAN :
          /\ req \in {r \in [Grants -> {PostureRequest(g, q, n) :
                                          g \in Grants, q \in PostureLists,
                                          n \in Nodes \cup {""}} \cup {NoRequest}] :
                         \A g \in Grants :
                             IF alone /\ g # gone THEN r[g] = NoRequest
                             ELSE r[g].id = g}
          /\ lpc = [g \in Grants |-> IF req[g].id = "" THEN "absent"
                                      ELSE IF g = gone THEN "done" ELSE "active"]
          /\ state = [g \in Grants |->
                         IF req[g].id = "" THEN GrantState0
                         ELSE IF g = gone
                         THEN [GrantState0 EXCEPT !.status = StatusRevoked,
                                                  !.activatedAt = 0,
                                                  !.expiresAt = MaxDur,
                                                  !.revokedBy = "a@x",
                                                  !.revokedAt = 0]
                         ELSE [GrantState0 EXCEPT !.status = StatusActive,
                                                  !.activatedAt = 0,
                                                  !.expiresAt = MaxDur]]
          /\ timer = [g \in Grants |-> IF lpc[g] = "active" THEN MaxDur ELSE NoTime]
          /\ mgr = [d \in Devices |->
                       [Mgr0 EXCEPT
                           !.running = TRUE,
                           !.activeGrants =
                               [g \in {h \in Grants : req[h].id # ""} |->
                                   [tags |-> req[g].grantType.tags,
                                    postureAttributes |->
                                        req[g].grantType.postureAttributes,
                                    requesterNodeID |-> req[g].requesterNode]],
                           !.removeCh = <<gone>>]]
          /\ hist = [Hist0 EXCEPT !.initTags = [d \in Devices |-> <<1>>],
                                  !.addDelivered =
                                      [g \in Grants |-> IF req[g].id = "" THEN 0 ELSE 1],
                                  !.removeSent = [g \in Grants |-> IF g = gone THEN 1 ELSE 0],
                                  !.order = [d \in Devices |-> <<"remove">>]]
    /\ revokeCh = [g \in Grants |-> <<>>]
    /\ extendCh = [g \in Grants |-> <<>>]
    /\ gate = [g \in Grants |-> Gate0]
    /\ deviceTags = [d \in Devices |-> <<1>>]
    /\ devicePosture = [n \in Nodes |->
                           {k \in PostureKeys :
                               \E g \in Grants : req[g].id # "" /\ <<n, k>> \in GrantPairs(g)}]
    /\ rec = Rec0
    /\ user = User0
    /\ budget = [approving |-> {}, signals |-> 0, external |-> 0, sweeps |-> 0, horizon |-> 0,
                 workers |-> 0, faults |-> 0]

NextPosture ==
    \E d \in Devices :
        \/ MgrRemove(d)
        \/ MgrGetTags(d)
        \/ MgrSetTags(d)
        \/ MgrPosture(d)
        \/ MgrLoopEnd(d)

SpecPosture == InitPosture /\ [][NextPosture]_vars

\* The manager of d1 holds one or two active grants and a Sync waits in its
\* channel; the devices carry any posture keys (some expected ones missing,
\* stray ones present, with or without the custom: prefix).
InitSync ==
    /\ now = 0
    /\ req \in {r \in [Grants -> {PostureRequest(g, q, n) :
                                    g \in Grants, q \in PostureLists,
                                    n \in Nodes \cup {""}} \cup {NoRequest}] :
                   /\ r["g1"].id = "g1"
                   /\ r["g2"].id \in {"", "g2"}
                   /\ Len(r["g2"].grantType.postureAttributes) <= 1}
    /\ lpc = [g \in Grants |-> IF req[g].id = "" THEN "absent" ELSE "active"]
    /\ state = [g \in Grants |->
                   IF req[g].id = "" THEN GrantState0
                   ELSE [GrantState0 EXCEPT !.status = StatusActive,
                                            !.activatedAt = 0,
                                            !.expiresAt = MaxDur]]
    /\ timer = [g \in Grants |-> IF lpc[g] = "active" THEN MaxDur ELSE NoTime]
    /\ mgr = [d \in Devices |->
                 [Mgr0 EXCEPT
                     !.running = TRUE,
                     !.activeGrants =
                         [g \in {h \in Grants : req[h].id # ""} |->
                             [tags |-> req[g].grantType.tags,
                              postureAttributes |-> req[g].grantType.postureAttributes,
                              requesterNodeID |-> req[g].requesterNode]],
                     !.syncCh = 1]]
    /\ revokeCh = [g \in Grants |-> <<>>]
    /\ extendCh = [g \in Grants |-> <<>>]
    /\ gate = [g \in Grants |-> Gate0]
    /\ deviceTags \in [Devices -> {<<>>, <<1>>}]
    /\ devicePosture \in [Nodes -> SUBSET (PostureKeys \cup {KeyNode})]
    /\ rec = Rec0
    /\ user = User0
    /\ budget = [approving |-> {}, signals |-> 0, external |-> 0, sweeps |-> 0, horizon |-> 0,
                 workers |-> 0, faults |-> 0]
    /\ hist = [Hist0 EXCEPT !.initTags = deviceTags,
                            !.initPosture = devicePosture,
                            !.addDelivered =
                                [g \in Grants |-> IF req[g].id = "" THEN 0 ELSE 1],
                            !.order = [d \in Devices |-> <<"sync">>]]

NextSync ==
    \E d \in Devices :
        \/ MgrSync(d)
        \/ MgrGetTags(d)
        \/ MgrSetTags(d)
        \/ MgrPosture(d)
        \/ MgrSyncGet(d)
        \/ MgrLoopEnd(d)

SpecSync == InitSync /\ [][NextSync]_vars

\* A tailnet of two devices, d1 (the target of the grant) and n2 (which
\* may carry a grant tag and a grant posture key that no manager owns), a
\* Reconciler and a manager whose activities may fail, and two sweeps.
FaultRequests ==
    {[g \in Grants |-> IF g = "g1" THEN GrantRequest("g1", "u@x", "d1", 1, gt)
                       ELSE NoRequest] :
        gt \in {TypeA, TypeTagPosture}}

InitFaults ==
    /\ now = 0
    /\ req \in FaultRequests
    /\ lpc = [g \in Grants |-> IF req[g].id = "" THEN "absent" ELSE "start"]
    /\ state = [g \in Grants |-> GrantState0]
    /\ timer = [g \in Grants |-> NoTime]
    /\ revokeCh = [g \in Grants |-> <<>>]
    /\ extendCh = [g \in Grants |-> <<>>]
    /\ gate = [g \in Grants |-> Gate0]
    /\ mgr = [n \in Nodes |-> Mgr0]
    /\ \E stale \in BOOLEAN :
          /\ deviceTags = [n \in Nodes |-> IF n = "n2" /\ stale THEN <<2, 3>> ELSE <<>>]
          /\ devicePosture = [n \in Nodes |-> IF n = "n2" /\ stale THEN {KeyP} ELSE {}]
    /\ rec = Rec0
    /\ user = User0
    /\ budget = [approving |-> {}, signals |-> 1, external |-> 0,
                 sweeps |-> MaxSweeps + 1, horizon |-> 0, workers |-> 0,
                 faults |-> MaxFaults + 1]
    /\ hist = [Hist0 EXCEPT !.initTags = deviceTags,
                            !.initPosture = devicePosture,
                            !.mgrStale = [n \in Nodes |-> FALSE],
                            !.recStale = [n \in Nodes |-> FALSE],
                            !.order = [n \in Nodes |-> <<>>]]

NextFaults ==
    \/ LifecycleRevoked
    \/ Manager
    \/ Reconciler
    \/ RecFaults
    \/ \E d \in Devices : MgrFaults(d)
    \/ \E g \in Grants : SignalRevoke(g, "a@x")

SpecFaults == InitFaults /\ [][NextFaults]_vars

\* The Reconciler's workflow tasks and activities are always eventually
\* run.
SpecFaultsLive ==
    /\ SpecFaults
    /\ WF_vars(Reconciler)

\* Two user grants on the same user, each user_role or user_restore; the
\* user is a member, active or suspended.
UserRequests ==
    {[g \in Grants |-> UserRequest(g, IF g = "g1" THEN "u@x" ELSE "b@x", "u1",
                                   dur[g], gt[g])] :
        dur \in [Grants -> Durations], gt \in [Grants -> {TypeElevate, TypeRestore}]}

InitUsers ==
    /\ now = 0
    /\ req \in UserRequests
    /\ lpc = [g \in Grants |-> "start"]
    /\ state = [g \in Grants |-> GrantState0]
    /\ timer = [g \in Grants |-> NoTime]
    /\ revokeCh = [g \in Grants |-> <<>>]
    /\ extendCh = [g \in Grants |-> <<>>]
    /\ gate = [g \in Grants |-> Gate0]
    /\ mgr = [d \in Devices |-> Mgr0]
    /\ deviceTags = [d \in Devices |-> <<>>]
    /\ devicePosture = [d \in Devices |-> {}]
    /\ rec = Rec0
    /\ user \in [Users -> {[role |-> RoleMember, status |-> st] :
                              st \in {UserActive, UserSuspended}}]
    /\ budget = [approving |-> {}, signals |-> MaxSignals, external |-> 0, sweeps |-> 0,
                 horizon |-> MaxTime, workers |-> 0, faults |-> 0]
    /\ hist = Hist0

NextUsers ==
    \/ Tick
    \/ \E g \in Grants :
          \/ LifeStart(g)
          \/ LifeGetUser(g)
          \/ LifeGetUserFails(g)
          \/ LifeSetUserRole(g)
          \/ LifeSetUserRoleFails(g)
          \/ LifeRestoreUser(g)
          \/ LifeRestoreUserFails(g)
          \/ LifeActivate(g)
          \/ LifeExpire(g)
          \/ LifeRevoke(g)
          \/ LifeRevertUserRole(g)
          \/ LifeRevertUserRestore(g)
          \/ LifeRevertUserFails(g)
          \/ LifeReturn(g)
          \/ LifeReturnError(g)
          \/ SignalRevoke(g, "a@x")

SpecUsers == InitUsers /\ [][NextUsers]_vars

NextTags == \E d \in Devices : MgrSetTags(d)

SpecTags == InitTags /\ [][NextTags]_vars

-----------------------------------------------------------------------------
(* Properties *)

Activated(g) == state[g].activatedAt # NoTime

\* The positions of a lifecycle that is past its approval gate and has not
\* returned.
PastGate == {"activate", "setrole", "arm", "active", "revoke", "extend", "revert",
             "return", "error"}

\* C1: the revert step runs exactly when activation happened: at most one
\* AddGrant and one RemoveGrant per grant, a RemoveGrant only after the
\* AddGrant was delivered and the grant Expired or was Revoked, and a
\* lifecycle that has returned with its AddGrant delivered has sent its
\* RemoveGrant.
C1_RevertIffActivated ==
    \A g \in Grants :
        /\ hist.addDelivered[g] <= 1
        /\ hist.removeSent[g] <= 1
        /\ hist.removeSent[g] = 1 =>
               /\ hist.addDelivered[g] = 1
               /\ state[g].status \in {StatusExpired, StatusRevoked}
        /\ (lpc[g] \in {"done", "failed"} /\ hist.addDelivered[g] = 1) =>
               hist.removeSent[g] = 1
        /\ (lpc[g] = "done" /\ state[g].status = StatusDenied) =>
               hist.addDelivered[g] = 0

\* C1, what the workflow does keep: a lifecycle that became Active sends
\* exactly one RemoveGrant before it completes, and a RemoveGrant is sent
\* by no lifecycle that was never Active.
C1_RevertIffActive ==
    \A g \in Grants :
        /\ hist.removeSent[g] <= 1
        /\ hist.removeSent[g] = 1 =>
               Activated(g) /\ state[g].status \in {StatusExpired, StatusRevoked}
        /\ (lpc[g] = "done" /\ Activated(g)) => hist.removeSent[g] = 1
        /\ lpc[g] = "failed" => ~Activated(g) /\ hist.removeSent[g] = 0

\* C2: extension clamp: after activation, expiresAt never exceeds
\* activatedAt + maxDuration.
C2_ExtensionClamp ==
    \A g \in Grants :
        Activated(g) =>
            state[g].expiresAt <= state[g].activatedAt + req[g].grantType.maxDuration

\* The tags of d claimed by a grant that is Active now.
ClaimedTags(d) ==
    UNION {Range(req[g].grantType.tags) :
              g \in {h \in Grants : /\ state[h].status = StatusActive
                                    /\ req[h].targetNodeID = d}}

\* C3: eventually clean: once every lifecycle has completed, the managers
\* have drained their channels and a full sweep has then run, no device
\* carries a grant-managed tag that no Active grant claims.
C3_EventuallyClean ==
    hist.settled =>
        \A d \in Devices :
            (Range(deviceTags[d]) \cap allGrantTags) \subseteq ClaimedTags(d)

\* C4: external-tag preservation: a tag outside grantTags that the device
\* carried before any grant, and that no external actor removed, is still
\* on the device whatever AddGrant and RemoveGrant signals were processed.
C4_ExternalTagPreserved ==
    \A d \in Devices : \A t \in Range(hist.initTags[d]) \ allGrantTags :
        <<d, t>> \notin hist.extRemoved => t \in Range(deviceTags[d])

C4_Witness ==
    /\ hist.initTags["d1"] = <<2>>
    /\ AllDone
    /\ hist.removeSent["g1"] = 1
    /\ hist.removeSent["g2"] = 1
    /\ hist.removeFailed["g1"] = 0
    /\ hist.removeFailed["g2"] = 0
    /\ ~mgr["d1"].running
    /\ deviceTags["d1"] = <<2>>

\* C5: shared-tag preservation: when the manager finishes a RemoveGrant,
\* each tag of the removed grant is on the device afterwards exactly if a
\* grant that is still active carries it.
C5_SharedTagPreserved ==
    [][\A d \in Devices :
          (mgr[d].running /\ mgr[d].pc = "set" /\ mgr'[d].pc # "set") =>
              \A t \in Range(mgr[d].removedTags) :
                  t \in Range(deviceTags'[d]) <=>
                      t \in ActiveTags(mgr[d].activeGrants)]_vars

C5_Witness ==
    /\ mgr["d1"].running
    /\ mgr["d1"].pc = "select"
    /\ DOMAIN mgr["d1"].activeGrants = {"g2"}
    /\ hist.removeSent["g1"] = 1
    /\ hist.removeFailed["g1"] = 0
    /\ "g1" \notin hist.droppedAdd \cup hist.droppedRemove
    /\ mgr["d1"].removeCh = <<>>
    /\ deviceTags["d1"] \in {<<1, 3>>, <<1, 2, 3>>}
    /\ budget.external = MaxExternal

\* C6: per-device write serialization: no component issues SetDeviceTags
\* on a device between another component's read of that device's tags
\* and the SetDeviceTags computed from that read.
C6_WritesSerialized == hist.interleaved = {}

\* C7: when a lifecycle sends RemoveGrant its manager is live and holds
\* the grant: no AddGrant is lost with a closing manager run and no
\* RemoveGrant hits a closed instance.
C7_ManagerLiveAtRevert ==
    \A g \in Grants :
        /\ g \notin hist.droppedAdd
        /\ hist.removeFailed[g] = 0

\* C8: self-approval forbidden: the gate never resolves approved by the
\* requester, whatever the approver list.
C8_SelfApprovalForbidden ==
    \A g \in Grants :
        /\ gate[g].result.approved => gate[g].result.approvedBy # req[g].requester
        /\ state[g].approvedBy # "" => state[g].approvedBy # req[g].requester

C8_Witness ==
    /\ "u@x" \in gate["g1"].rejected
    /\ "u@x" \in Range(req["g1"].grantType.approvers)
    /\ req["g1"].requester = "u@x"
    /\ ~gate["g1"].decided

\* C9: the gate resolves approved only on an Approve signal from a member
\* of the approver list or, with an empty list, from anyone but the
\* requester; that signal's identity is the approvedBy of the result and
\* of the GrantState.
C9_ApprovedOnlyByApprover ==
    \A g \in Grants :
        /\ gate[g].result.approved =>
               LET by == gate[g].result.approvedBy
                   approvers == req[g].grantType.approvers
               IN /\ by \in hist.approveSent
                  /\ \/ by \in Range(approvers)
                     \/ approvers = <<>> /\ by # req[g].requester
        /\ (/\ req[g].grantType.riskLevel > RiskLow
            /\ lpc[g] \in PastGate) =>
               /\ gate[g].result.approved
               /\ state[g].approvedBy = gate[g].result.approvedBy
        /\ state[g].approvedBy # "" => state[g].approvedBy = gate[g].result.approvedBy

C9_Witness ==
    /\ req["g1"].grantType.approvers = <<"a@x">>
    /\ state["g1"].status = StatusActive
    /\ state["g1"].approvedBy = "a@x"
    /\ "b@x" \in gate["g1"].rejected

\* C10: a rejected Approve does not consume the gate: the step that
\* rejects it leaves the gate running and undecided with its deadline and
\* its pending Deny signals untouched, and the grant PendingApproval.
C10_RejectedApproveKeepsGate ==
    [][\A g \in Grants :
          gate'[g].rejected # gate[g].rejected =>
              /\ gate'[g].running
              /\ ~gate'[g].decided
              /\ gate'[g].deadline = gate[g].deadline
              /\ gate'[g].denyCh = gate[g].denyCh
              /\ state'[g].status = StatusPendingApproval
              /\ lpc'[g] = "approval"]_vars

C10_Witness ==
    /\ gate["g1"].rejected = {"u@x"}
    /\ gate["g1"].decided
    /\ gate["g1"].result.approved
    /\ gate["g1"].result.approvedBy = "a@x"
    /\ state["g1"].status = StatusActive

TimedOut(g) == gate[g].result.reason = "approval timed out"

\* C11: a gate that gets no valid Approve and no Deny resolves not
\* approved with reason "approval timed out", and only once 24 hours have
\* passed since it started; a rejected Approve never moves the deadline;
\* every gate whose deadline the clock reaches terminates.
C11_GateTimesOut ==
    /\ [](\A g \in Grants :
            /\ gate[g].running => gate[g].deadline <= now + approvalTimeout
            /\ (gate[g].decided /\ ~gate[g].result.approved
                    /\ gate[g].result.deniedBy = "") => TimedOut(g)
            /\ TimedOut(g) =>
                   /\ gate[g].decided
                   /\ ~gate[g].result.approved
                   /\ gate[g].resolvedAt >= gate[g].deadline)
    /\ [][\A g \in Grants :
            (gate[g].running /\ gate'[g].running) =>
                gate'[g].deadline = gate[g].deadline]_vars
    /\ \A g \in Grants :
           (gate[g].running /\ gate[g].deadline <= MaxTime) ~> gate[g].decided

C11_Witness ==
    /\ TimedOut("g1")
    /\ gate["g1"].rejected = {"b@x"}
    /\ gate["g1"].resolvedAt = approvalTimeout
    /\ state["g1"].status = StatusDenied

\* C12: a grant of medium or high risk is never Active and never sends
\* its AddGrant unless its gate resolved approved; a low-risk grant has no
\* gate at all and its approvedBy stays empty.
C12_ApprovalRequired ==
    \A g \in Grants :
        /\ req[g].grantType.riskLevel \in {RiskMedium, RiskHigh} =>
               ((\/ state[g].status \in {StatusActive, StatusExpired, StatusRevoked}
                 \/ Activated(g)
                 \/ hist.addDelivered[g] > 0
                 \/ lpc[g] \in PastGate)
                    => gate[g].decided /\ gate[g].result.approved)
        /\ req[g].grantType.riskLevel = RiskLow =>
               /\ gate[g] = Gate0
               /\ state[g].approvedBy = ""
               /\ lpc[g] # "approval"

C12_Witness ==
    /\ req["g1"].grantType.riskLevel = RiskMedium
    /\ state["g1"].status = StatusActive
    /\ gate["g1"].result.approved
    /\ 1 \in Range(deviceTags["d1"])

GateDenied(g) == gate[g].decided /\ ~gate[g].result.approved

\* C13: when the gate resolves not approved (Deny or timeout) the
\* lifecycle ends with status Denied, having sent no AddGrant and run no
\* revert; and Denied is reached in no other way.
C13_DeniedEndsClean ==
    \A g \in Grants :
        /\ GateDenied(g) =>
               /\ lpc[g] \in {"approval", "done"}
               /\ lpc[g] = "done" => state[g].status = StatusDenied
               /\ lpc[g] = "approval" => state[g].status = StatusPendingApproval
               /\ hist.addDelivered[g] = 0
               /\ hist.removeSent[g] = 0
               /\ ~Activated(g)
               /\ timer[g] = NoTime
        /\ state[g].status = StatusDenied => GateDenied(g) /\ lpc[g] = "done"

C13_Witness ==
    /\ gate["g1"].result.deniedBy = "a@x"
    /\ state["g1"].status = StatusDenied
    /\ lpc["g1"] = "done"
    /\ ~mgr["d1"].running
    /\ deviceTags["d1"] = hist.initTags["d1"]

Unsignalled(g) == g \notin hist.lifeSignals

\* C14: duration honored: with no Revoke or Extend signal, expiresAt is
\* activatedAt + request.duration throughout, the grant is Active before
\* that time and leaves Active only by expiring at or after it, and an
\* activated grant whose expiry the clock reaches ends up Expired with its
\* revert run, unless a signal arrives.
C14_DurationHonored ==
    /\ [](\A g \in Grants :
            (Activated(g) /\ Unsignalled(g)) =>
                /\ state[g].expiresAt = state[g].activatedAt + req[g].duration
                /\ now < state[g].expiresAt => state[g].status = StatusActive
                /\ state[g].status = StatusActive =>
                       lpc[g] = "active" /\ timer[g] = state[g].expiresAt
                /\ state[g].status # StatusActive =>
                       /\ state[g].status = StatusExpired
                       /\ now >= state[g].expiresAt
                /\ lpc[g] = "done" => hist.removeSent[g] = 1)
    /\ \A g \in Grants :
           (Activated(g) /\ state[g].expiresAt <= MaxTime) ~>
               \/ ~Unsignalled(g)
               \/ /\ state[g].status = StatusExpired
                  /\ hist.removeSent[g] = 1
                  /\ lpc[g] = "done"

C14_Witness ==
    /\ Unsignalled("g1")
    /\ req["g1"].duration = MaxDur
    /\ state["g1"].status = StatusExpired
    /\ state["g1"].expiresAt = now
    /\ lpc["g1"] = "done"
    /\ hist.removeSent["g1"] = 1
    /\ hist.removeFailed["g1"] = 0

\* C15, as stated: a Revoke received while the grant is Active leads to
\* status Revoked, with the revert run and RemoveGrant sent.
C15_RevokeLeadsToRevoked ==
    \A g \in Grants :
        (state[g].status = StatusActive /\ revokeCh[g] # <<>>) ~>
            (/\ state[g].status = StatusRevoked
             /\ lpc[g] = "done"
             /\ hist.removeSent[g] = 1)

\* C15, amended: a Revoke received while the grant is Active ends the
\* grant Revoked or, only when the expiry time was reached before the
\* revoke case ran, Expired with the Revoke left unconsumed; either way
\* the revert runs and sends RemoveGrant.  The step that handles the
\* Revoke sets status Revoked, records revokedBy and revokedAt and cancels
\* the expiry timer, and a Revoked grant never becomes Expired.
C15_RevokeWhileActive ==
    /\ [][\A g \in Grants :
            (state[g].status = StatusActive /\ state'[g].status = StatusRevoked) =>
                /\ revokeCh[g] # <<>>
                /\ state'[g].revokedBy = Head(revokeCh[g]).revokedBy
                /\ state'[g].revokedAt = now
                /\ timer'[g] = NoTime
                /\ lpc'[g] = "revert"]_vars
    /\ [][\A g \in Grants :
            state[g].status = StatusRevoked =>
                state'[g].status = StatusRevoked /\ timer'[g] = NoTime]_vars
    /\ [](\A g \in Grants :
            state[g].status = StatusRevoked =>
                /\ lpc[g] \in {"revert", "return", "done"}
                /\ lpc[g] \in {"return", "done"} <=> hist.removeSent[g] = 1)
    /\ \A g \in Grants :
           state[g].status = StatusRevoked ~>
               (lpc[g] = "done" /\ hist.removeSent[g] = 1)
    /\ [][\A g \in Grants :
            (/\ state[g].status = StatusActive
             /\ revokeCh[g] # <<>>
             /\ state'[g].status # StatusActive) =>
                \/ state'[g].status = StatusRevoked
                \/ /\ state'[g].status = StatusExpired
                   /\ timer[g] # NoTime
                   /\ now >= timer[g]
                   /\ revokeCh'[g] = revokeCh[g]
                   /\ state'[g].revokedBy = ""]_vars
    /\ \A g \in Grants :
           (state[g].status = StatusActive /\ revokeCh[g] # <<>>) ~>
               (/\ state[g].status \in {StatusRevoked, StatusExpired}
                /\ lpc[g] = "done"
                /\ hist.removeSent[g] = 1)

C15_Witness ==
    /\ state["g1"].status = StatusRevoked
    /\ state["g1"].revokedBy = "a@x"
    /\ state["g1"].revokedAt < state["g1"].expiresAt
    /\ now > state["g1"].expiresAt
    /\ lpc["g1"] = "done"
    /\ hist.removeSent["g1"] = 1

\* C16: drift correction: once the manager has processed a Sync (has
\* re-run its tag application), the device carries no grant-managed tag
\* that none of the manager's active grants claims.
C16_SyncRemovesStrayTag ==
    [][\A d \in Devices :
          (mgr[d].handler = "sync" /\ mgr[d].pc = "set" /\ mgr'[d].pc # "set") =>
              (Range(deviceTags'[d]) \cap allGrantTags)
                  \subseteq ActiveTags(mgr[d].activeGrants)]_vars

\* C17: when an external actor removes a tag of an Active grant from the
\* device, no later sweep passes that device without sending Sync to its
\* manager, also when the removed tag was the only grant-managed tag there.
C17_ExternalRemovalDetected == hist.missedDrift = {}

\* The device the sweep is working on, and its listed tags partitioned.
RecDevice == rec.devices[rec.idx].nodeID

RecPart == partitionTags(rec.devices[rec.idx].tags, allGrantTags)

\* C18: stale cleanup: the sweep is in its cleanup of a device only when the
\* manager was not running at the probe and at the re-probe; a re-probe that
\* finds no manager starts the cleanup, which sets the device's tags to the
\* listed non-grant tags when grant tags were listed and deletes each
\* observed grant-managed posture key; a probe or re-probe that finds the
\* manager running leaves the device's tags and posture keys alone.
C18_StaleCleanup ==
    /\ [](rec.pc \in {"cleanup", "delposture"} =>
             /\ ~rec.exists /\ ~rec.existsNow
             /\ (Len(RecPart.grant) > 0 \/ rec.stalePostureKeys # {}))
    /\ [][(rec.pc = "probe" /\ rec' # rec) =>
             /\ rec'.pc = IF mgr[RecDevice].running THEN "query" ELSE "reprobe"
             /\ deviceTags' = deviceTags /\ devicePosture' = devicePosture]_vars
    /\ [][(rec.pc = "query" /\ rec' # rec) =>
             /\ rec'.pc \notin {"cleanup", "delposture"}
             /\ deviceTags' = deviceTags /\ devicePosture' = devicePosture]_vars
    /\ [][(rec.pc = "reprobe" /\ rec' # rec) =>
             /\ deviceTags' = deviceTags /\ devicePosture' = devicePosture
             /\ IF mgr[RecDevice].running
                THEN rec'.pc \notin {"cleanup", "delposture"}
                ELSE /\ rec'.pc = IF Len(RecPart.grant) > 0
                                  THEN "cleanup" ELSE "delposture"
                     /\ rec'.pending = rec.stalePostureKeys]_vars
    /\ [][(rec.pc = "cleanup" /\ rec' # rec) =>
             /\ deviceTags'[RecDevice] = RecPart.other
             /\ devicePosture' = devicePosture
             /\ (rec.pending # {} =>
                    rec'.pc = "delposture" /\ rec'.pending = rec.pending)]_vars
    /\ [][(rec.pc = "delposture" /\ rec' # rec) =>
             \E k \in rec.pending :
                /\ devicePosture'[RecDevice] = devicePosture[RecDevice] \ {k}
                /\ IF rec.pending = {k}
                   THEN rec'.pc # "delposture"
                   ELSE rec'.pc = "delposture" /\ rec'.pending = rec.pending \ {k}]_vars

\* A device listed with a stale grant tag and a stale posture key, no
\* manager at either probe: the tags have been set to the listed non-grant
\* tags and the key is about to be deleted.
C18_Witness ==
    /\ rec.pc = "delposture"
    /\ rec.pending = {KeyP}
    /\ Len(RecPart.grant) > 0
    /\ deviceTags[RecDevice] = RecPart.other
    /\ KeyP \in devicePosture[RecDevice]
    /\ ~mgr[RecDevice].running

\* C19: the re-probe closes the start race: no stale-cleanup write of the
\* Reconciler takes a tag or a posture key claimed by an Active grant, applied
\* by the device's running manager, off the device.
C19_CleanupSparesActive ==
    hist.cleanedLive = {} /\ hist.cleanedLiveKeys = {}

\* C20: the Reconciler only touches grant-managed items: no write of the
\* Reconciler takes a tag outside grantTags off a device.
C20_NonGrantTagsKept == hist.recDropped = {}

\* C20, posture part: every key the Reconciler deletes is a grant-managed
\* posture key.
C20_DeletesGrantKeysOnly ==
    /\ [](rec.pending \subseteq allPostureKeys)
    /\ [][(rec.pc = "delposture" /\ rec' # rec) =>
             devicePosture[RecDevice] \ devicePosture'[RecDevice]
                 \subseteq allPostureKeys]_vars

\* C21, as stated: at every moment a running DeviceTagManager has at least
\* one entry in activeGrants.
C21_RunningHasGrant ==
    \A d \in Devices : mgr[d].running => DOMAIN mgr[d].activeGrants # {}

\* C21: a DeviceTagManager run ends without continuing as new only with
\* activeGrants empty (the handler that ends it has removed the last grant),
\* and a running manager whose activeGrants is empty is either a fresh run
\* whose first AddGrant is still buffered or inside the remove handler that
\* emptied it.
C21_EndsOnlyWhenEmpty ==
    /\ [](\A d \in Devices :
             (mgr[d].running /\ DOMAIN mgr[d].activeGrants = {}) =>
                 \/ /\ mgr[d].pc = "select"
                    /\ mgr[d].signalCount = 0
                    /\ mgr[d].addCh # <<>>
                 \/ /\ mgr[d].pc # "select"
                    /\ mgr[d].handler = "remove")
    /\ [][\A d \in Devices :
             (mgr[d].running /\ ~mgr'[d].running) =>
                 \/ DOMAIN mgr[d].activeGrants = {}
                 \/ /\ mgr[d].pc = "select"
                    /\ MgrReady(mgr[d]) = "remove"
                    /\ DOMAIN mgr[d].activeGrants \subseteq {Head(mgr[d].removeCh)}]_vars

\* A manager that was sent a RemoveGrant while running has ended.
C21_Witness ==
    /\ ~mgr["d1"].running
    /\ \E g \in Grants : hist.removeSent[g] > hist.removeFailed[g]

\* C22: a lifecycle whose effect application failed in the activation phase
\* has returned with its status still PendingApproval, was never Active, has
\* armed no expiry timer and has sent no RemoveGrant, and stays so; no
\* lifecycle that was never activated sends a RemoveGrant.
C22_ActivationFailureLeavesPending ==
    /\ [](\A g \in Grants :
             lpc[g] \in {"error", "failed"} =>
                 /\ state[g].status = StatusPendingApproval
                 /\ ~Activated(g)
                 /\ timer[g] = NoTime
                 /\ hist.removeSent[g] = 0)
    /\ [](\A g \in Grants : hist.removeSent[g] > 0 => Activated(g))
    /\ [][\A g \in Grants :
             /\ lpc'[g] = "failed" => lpc[g] \in {"error", "failed"}
             /\ lpc'[g] = "error" => lpc[g] \in {"activate", "error"}
             /\ lpc[g] = "failed" => lpc'[g] = "failed" /\ state'[g] = state[g]]_vars

\* An approved grant whose activation failed.
C22_Witness ==
    /\ lpc["g1"] = "failed"
    /\ state["g1"].approvedBy # ""
    /\ state["g1"].status = StatusPendingApproval

\* The tags of grant g that its target device carries.
TagsLeft(g) == Range(req[g].grantType.tags) \cap Range(deviceTags[req[g].targetNodeID])

\* The target-scoped posture keys of grant g that its target device carries.
KeysLeft(g) ==
    {req[g].grantType.postureAttributes[i].key :
        i \in {j \in DOMAIN req[g].grantType.postureAttributes :
                  req[g].grantType.postureAttributes[j].target = "target"}}
        \cap devicePosture[req[g].targetNodeID]

\* C23: a lifecycle whose RemoveGrant could not be delivered is in status
\* Expired or Revoked with nothing left to do but return, never fails, and
\* does complete; once every lifecycle has completed, a full sweep that
\* nothing interfered with leaves none of that grant's tags and
\* target-scoped posture keys on the device, and with the lifecycles over,
\* the managers idle and a sweep still to come they are eventually gone.
C23_FailedRevertIsSwept ==
    /\ [](\A g \in Grants :
             hist.removeFailed[g] > 0 =>
                 /\ lpc[g] \in {"return", "done"}
                 /\ state[g].status \in {StatusExpired, StatusRevoked})
    /\ \A g \in Grants :
          hist.removeFailed[g] > 0 ~> lpc[g] = "done"
    /\ [](\A g \in Grants :
             (hist.settled /\ hist.removeFailed[g] > 0) =>
                 TagsLeft(g) = {} /\ KeysLeft(g) = {})
    /\ \A g \in Grants :
          (/\ hist.removeFailed[g] > 0
           /\ AllDone
           /\ \A d \in Devices : Quiet(d)
           /\ rec.pc = "sleep"
           /\ budget.sweeps > 0
           /\ budget.external = 0)
              ~> (TagsLeft(g) = {} /\ KeysLeft(g) = {})

\* The RemoveGrant of a grant failed, and a later sweep took one of that
\* grant's tags and one of its posture keys off the device.
C23_Witness ==
    \E g \in Grants :
        /\ hist.removeFailed[g] > 0
        /\ hist.settled
        /\ Range(req[g].grantType.tags) \cap hist.recCleaned # {}
        /\ \E i \in DOMAIN req[g].grantType.postureAttributes :
               req[g].grantType.postureAttributes[i].key \in hist.recDeletedKeys

\* C24: every Approve that HandleApproveGrant forwards to the gate comes
\* from a caller other than the requester who is in the grant type's
\* approver list when that list is not empty.
C24_OnlyApproversForwarded ==
    \A who \in hist.apiForwarded :
        ApproveAccepted(who, req["g1"].requester, req["g1"].grantType.approvers)

\* C24, the checks the handler does make: an Approve is forwarded only
\* from a caller other than the requester.
C24_NoSelfApprovalForwarded ==
    req["g1"].requester \notin hist.apiForwarded

\* C25: Reconciler singleton: at most one ReconciliationWorkflow instance
\* runs, however many workers start; a worker start while an instance is
\* running leaves the number of instances as it was.
C25_ReconcilerSingleton ==
    /\ [](rec.instances <= 1)
    /\ [][(budget'.workers < budget.workers /\ rec.instances > 0) =>
             rec' = rec]_vars

\* Every worker has started, the second one while the instance started by
\* the first was in the middle of a sweep.
C25_Witness ==
    /\ budget.workers = 0
    /\ rec.instances = 1
    /\ rec.pc # "sleep"

\* C26: continue-as-new of a DeviceTagManager is unobservable: the step in
\* which the manager, its handler over, continues as new
\* carries activeGrants over and keeps every AddGrant, RemoveGrant and Sync
\* that was pending at that moment.
C26_ContinueAsNewKeepsSignals ==
    [][\A d \in Devices :
          (/\ mgr[d].running /\ mgr[d].pc = "after"
           /\ mgr'[d].running /\ mgr'[d].signalCount = 0) =>
              /\ mgr'[d].activeGrants = mgr[d].activeGrants
              /\ mgr'[d].addCh = mgr[d].addCh
              /\ mgr'[d].removeCh = mgr[d].removeCh
              /\ mgr'[d].syncCh = mgr[d].syncCh]_vars

\* C26, the part that holds: continue-as-new carries activeGrants over.
C26_ContinueAsNewKeepsGrants ==
    [][\A d \in Devices :
          (/\ mgr[d].running /\ mgr[d].pc = "after"
           /\ mgr'[d].running /\ mgr'[d].signalCount = 0) =>
              mgr'[d].activeGrants = mgr[d].activeGrants]_vars

\* C27: within one DeviceTagManager the signals are handled strictly in
\* arrival order across AddGrant, RemoveGrant and Sync: no handler takes a
\* signal while one of another kind that arrived earlier is still waiting.
C27_ArrivalOrder == hist.outOfOrder = {}

\* C27, the part that holds: the signals are handled one at a time; a
\* handler starts only when the manager is between handlers.
C27_OneAtATime ==
    [][\A d \in Devices :
          (mgr[d].running /\ mgr'[d].running /\
           mgr'[d].signalCount = mgr[d].signalCount + 1) =>
              mgr[d].pc = "select"]_vars

\* C28: tag application writes the current tags without the removed ones,
\* united with the tags of every active grant, in ascending order without
\* duplicates (so the result does not depend on the order of its inputs);
\* with no active grant and nothing removed the computation yields the
\* current tags, sorted.
C28_TagApplication ==
    /\ [][\A d \in Devices :
            (mgr[d].running /\ mgr[d].pc = "set" /\ mgr'[d] # mgr[d]) =>
                LET w == deviceTags'[d]
                    cur == mgr[d].currentTags
                    rem == mgr[d].removedTags
                    act == mgr[d].activeGrants
                IN /\ Range(w) = (Range(cur) \ Range(rem)) \cup ActiveTags(act)
                   /\ \A i, j \in DOMAIN w : i < j => w[i] < w[j]]_vars
    /\ [](\A cur \in TagLists :
            LET w == computeDesiredTags(cur, EmptyMap, <<>>)
            IN /\ Range(w) = Range(cur)
               /\ Len(w) = Len(cur)
               /\ \A i, j \in DOMAIN w : i < j => w[i] < w[j])

\* The device had tags 3 and 2; tag 3 was removed and an active grant
\* claims tags 2 and 1: the manager has written 1, 2.
C28_Witness ==
    /\ hist.initTags["d1"] = <<3, 2>>
    /\ deviceTags["d1"] = <<1, 2>>
    /\ mgr["d1"].running
    /\ mgr["d1"].pc = "after"
    /\ \E g \in DOMAIN mgr["d1"].activeGrants :
           mgr["d1"].activeGrants[g].tags = <<2, 1>>

\* C29: the step that handles an Extend while the grant is Active cancels
\* the running timer and sets expiresAt to now plus the signal's duration
\* clamped to maxDuration, whatever time remained; the only timer armed is
\* the one for the current expiresAt, so the grant never expires before it;
\* and an Active grant with no signal waiting becomes Expired once the
\* clock reaches expiresAt, unless another signal arrives.
C29_ExtendReplacesExpiry ==
    /\ [][\A g \in Grants :
            (/\ lpc[g] \in {"active", "extend"} /\ lpc'[g] = "active"
             /\ Len(extendCh'[g]) < Len(extendCh[g])) =>
                LET duration == Head(extendCh[g]).duration
                    maxDuration == req[g].grantType.maxDuration
                    newExpiry == now + Min({duration, maxDuration})
                IN /\ state[g].status = StatusActive
                   /\ state'[g].status = StatusActive
                   /\ state'[g].expiresAt = newExpiry
                   /\ timer'[g] = newExpiry]_vars
    /\ [](\A g \in Grants :
            lpc[g] \in {"active", "revoke", "extend"} =>
                timer[g] = state[g].expiresAt)
    /\ [][\A g \in Grants :
            (state[g].status = StatusActive /\ state'[g].status = StatusExpired) =>
                /\ now >= state[g].expiresAt
                /\ state'[g].expiresAt = state[g].expiresAt]_vars
    /\ \A g \in Grants :
           (lpc[g] = "active" /\ g \in hist.lifeSignals
                /\ state[g].expiresAt <= MaxTime) ~>
               \/ state[g].status \in {StatusExpired, StatusRevoked}
               \/ revokeCh[g] # <<>>
               \/ extendCh[g] # <<>>

\* A grant activated at 0 for MaxDur was extended at 0 by 1: it expired at
\* 1, before the cancelled timer's deadline.
C29_Witness ==
    /\ state["g1"].activatedAt = 0
    /\ req["g1"].duration = MaxDur
    /\ state["g1"].expiresAt = 1
    /\ state["g1"].status = StatusExpired
    /\ now = 1
    /\ revokeCh["g1"] = <<>>

\* The (device, key) pairs claimed by the grants still Active.
RemainingPairs ==
    UNION {GrantPairs(g) : g \in {h \in Grants : state[h].status = StatusActive}}

\* C30: handling RemoveGrant deletes the removed grant's posture
\* attributes from the devices they resolve to, except the (device, key)
\* pairs a remaining grant claims: no such pair is ever deleted, nothing
\* but the removed grant's pairs is deleted, and when the handler has
\* finished the devices carry exactly the remaining grants' pairs, so a key
\* that a remaining grant claims on another device is deleted here.
C30_OrphanedPostureDeleted ==
    \A n \in Nodes :
        /\ {k \in PostureKeys : <<n, k>> \in RemainingPairs} \subseteq devicePosture[n]
        /\ devicePosture[n] \subseteq
               {k \in PostureKeys : \E g \in Grants :
                    req[g].id # "" /\ <<n, k>> \in GrantPairs(g)}
        /\ (\A d \in Devices :
                /\ mgr[d].removeCh = <<>>
                /\ mgr[d].running => mgr[d].pc = "select")
               => devicePosture[n] = {k \in PostureKeys : <<n, k>> \in RemainingPairs}

\* g1 claimed p on the requester's node n2 and ext on the target; g2 claims
\* both keys on the target.  With g1 removed, n2 has lost p and d1 keeps
\* both.
C30_Witness ==
    /\ state["g1"].status = StatusRevoked
    /\ state["g2"].status = StatusActive
    /\ req["g1"].requesterNode = "n2"
    /\ req["g1"].grantType.postureAttributes =
           <<PostureAttribute(KeyP, "requester"), PostureAttribute(KeyExt, "target")>>
    /\ req["g2"].grantType.postureAttributes =
           <<PostureAttribute(KeyP, "target"), PostureAttribute(KeyExt, "target")>>
    /\ mgr["d1"].removeCh = <<>>
    /\ mgr["d1"].pc = "select"
    /\ DOMAIN mgr["d1"].activeGrants = {"g2"}
    /\ devicePosture["n2"] = {}
    /\ devicePosture["d1"] = {KeyP, KeyExt}

\* The manager of d has no signal waiting and no handler in progress.
MgrIdle(d) ==
    /\ mgr[d].addCh = <<>>
    /\ mgr[d].removeCh = <<>>
    /\ mgr[d].syncCh = 0
    /\ mgr[d].running => mgr[d].pc = "select"

\* C31: handling Sync sets every posture key its active grants expect, on
\* the device each resolves to, and deletes from the target device the
\* custom: keys not expected there; it deletes nothing else: no key of a
\* requester's device and no key without the custom: prefix.
C31_SyncPosture ==
    /\ [](\A n \in Nodes :
            /\ hist.initPosture[n] \ devicePosture[n] \subseteq
                   {k \in PostureKeys \cup {KeyNode} :
                       /\ n \in Devices
                       /\ k.prefix = "custom:"
                       /\ <<n, k>> \notin RemainingPairs}
            /\ devicePosture[n] \ hist.initPosture[n] \subseteq
                   {k \in PostureKeys : <<n, k>> \in RemainingPairs}
            /\ (\A d \in Devices : MgrIdle(d)) =>
                   devicePosture[n] =
                       (hist.initPosture[n] \ 
                           {k \in PostureKeys :
                               n \in Devices /\ <<n, k>> \notin RemainingPairs})
                       \cup {k \in PostureKeys : <<n, k>> \in RemainingPairs})
    /\ [][\A n \in Nodes : \A k \in devicePosture[n] \ devicePosture'[n] :
             /\ n \in Devices
             /\ k.prefix = "custom:"
             /\ <<n, k>> \notin RemainingPairs]_vars

\* g1 expects p on the target and on the requester's node n2.  The target
\* carried ext and node:os, n2 carried ext only: after the Sync the target
\* has p and node:os, n2 has p and still ext.
C31_Witness ==
    /\ MgrIdle("d1")
    /\ mgr["d1"].signalCount = 1
    /\ req["g1"].requesterNode = "n2"
    /\ req["g1"].grantType.postureAttributes =
           <<PostureAttribute(KeyP, "target"), PostureAttribute(KeyP, "requester")>>
    /\ req["g2"] = NoRequest
    /\ hist.initPosture = [n \in Nodes |-> IF n = "d1" THEN {KeyExt, KeyNode} ELSE {KeyExt}]
    /\ devicePosture = [n \in Nodes |-> IF n = "d1" THEN {KeyP, KeyNode} ELSE {KeyP, KeyExt}]

\* C32: when the sweep queries the running manager of a device, it goes on
\* to send Sync, which a manager still running receives, exactly when the device's listing has a grant-managed tag and its
\* grant-managed tags differ from the union of the active grants' tags, or
\* an observed grant-managed posture key is not a target-scoped key of an
\* active grant; and once the probe has found the manager, the Reconciler
\* writes neither the tags nor the posture attributes of that device.
C32_SyncIffDrift ==
    /\ [][(rec.pc = "query" /\ rec' # rec /\ mgr[RecDevice].running) =>
            LET d == RecDevice
                observed == Range(rec.devices[rec.idx].tags) \cap allGrantTags
                claimed == UNION {Range(mgr[d].activeGrants[g].tags) :
                                      g \in DOMAIN mgr[d].activeGrants}
                targetKeys ==
                    {pa.key : pa \in
                        {a \in UNION {Range(mgr[d].activeGrants[g].postureAttributes) :
                                         g \in DOMAIN mgr[d].activeGrants} :
                            a.target = "target"}}
                drift == \/ observed # {} /\ observed # claimed
                         \/ \E k \in rec.stalePostureKeys : k \notin targetKeys
            IN /\ drift <=> rec'.pc = "signal"
               /\ mgr' = mgr
               /\ deviceTags' = deviceTags
               /\ devicePosture' = devicePosture]_vars
    /\ [][(rec.pc = "signal" /\ rec' # rec) =>
            /\ mgr[RecDevice].running =>
                   mgr'[RecDevice].syncCh = mgr[RecDevice].syncCh + 1
            /\ deviceTags' = deviceTags
            /\ devicePosture' = devicePosture]_vars
    /\ [][\A d \in Devices :
            mgr'[d].syncCh > mgr[d].syncCh => rec.pc = "signal"]_vars
    /\ [][(rec.pc \in {"cleanup", "delposture"} /\ rec' # rec) =>
            ~rec.exists /\ ~rec.existsNow]_vars
    /\ [](rec.pc = "query" => rec.exists)

\* The sweep has sent a Sync for posture drift alone: the device listing
\* had the grant's tag and nothing else, and a grant-managed key that the
\* tag-only grant does not expect was observed.
C32_Witness ==
    /\ rec.sweeps = 1
    /\ mgr["d1"].running
    /\ mgr["d1"].syncCh = 1
    /\ req["g1"].grantType = TypeA
    /\ DOMAIN mgr["d1"].activeGrants = {"g1"}
    /\ deviceTags["d1"] = <<1>>
    /\ hist.initTags["d1"] = <<>>
    /\ hist.extRemoved = {}
    /\ KeyP \in devicePosture["d1"]

\* What DescribeWorkflowExecution can answer: an error, or the status of
\* the latest run.
DescribeResults ==
    {[err |-> e, status |-> ""] : e \in {"NotFound", "Unavailable"}}
        \cup {[err |-> "", status |-> st] :
                 st \in {"Running", "Completed", "ContinuedAsNew", "Terminated"}}

\* The step in which a probe or a re-probe of the manager of n fails.
ProbeFailsOn(n) ==
    \E a \in {"CheckWorkflowExists", "CheckWorkflowExists (re-check)"} :
        <<a, n>> \in hist'.failed \ hist.failed

\* C33: CheckWorkflowExists answers "absent" without error for NotFound,
\* "exists" only for a Running execution, and an error for any other
\* failure; when the probe or the re-probe of a device fails, the
\* Reconciler writes nothing, signals nothing and goes on to the next
\* device (or ends the sweep); it queries a manager only after a probe saw
\* it Running and cleans up only after two probes saw none.
C33_ProbeFailureIsNotAbsence ==
    /\ [](\A desc \in DescribeResults :
            LET r == CheckWorkflowExists(desc)
            IN /\ desc.err = "NotFound" => ~r.exists /\ r.err = ""
               /\ r.exists <=> (desc.err = "" /\ desc.status = "Running")
               /\ desc.err \notin {"", "NotFound"} => r.err # "")
    /\ [][\A n \in Nodes :
            ProbeFailsOn(n) =>
                /\ rec.pc \in {"probe", "reprobe"}
                /\ n = RecDevice
                /\ mgr' = mgr
                /\ deviceTags' = deviceTags
                /\ devicePosture' = devicePosture
                /\ \/ rec'.pc = "sleep" /\ rec.idx = Len(rec.devices)
                   \/ rec'.pc = "posture" /\ rec'.idx = rec.idx + 1]_vars
    /\ [][/\ (rec.pc = "probe" /\ rec'.pc = "query") => mgr[RecDevice].running
          /\ (rec.pc = "probe" /\ rec'.pc = "reprobe") => ~mgr[RecDevice].running
          /\ (rec.pc = "reprobe" /\ rec'.pc \in {"cleanup", "delposture"}) =>
                 ~mgr[RecDevice].running]_vars

\* The probe of d1's running manager failed while d1 carried the grant's
\* tag: the tag is still there, no Sync was sent, and the sweep is at n2.
C33_Witness ==
    /\ hist.failed = {<<"CheckWorkflowExists", "d1">>}
    /\ mgr["d1"].running
    /\ mgr["d1"].syncCh = 0
    /\ deviceTags["d1"] = <<1>>
    /\ rec.sweeps = 0
    /\ rec.idx = 2
    /\ rec.pc = "posture"

\* C34: every sweep ends, whatever failed in it, by sleeping and
\* continuing as new: the workflow keeps running, a sweep ends only after
\* the last listed device or when ListDevices failed, a failure at one
\* device leaves the sweep at that device or at the next one, and as long
\* as sweeps are due the next one starts and ends.
C34_SweepsRecur ==
    /\ [](rec.instances = 1)
    /\ [][(rec.pc # "sleep" /\ rec'.pc = "sleep") =>
             /\ rec.idx = Len(rec.devices)
             /\ rec'.sweeps = rec.sweeps + 1]_vars
    /\ [][(rec.pc = "sleep" /\ rec' # rec) =>
             \/ rec'.pc = "posture" /\ rec'.idx = 1
                    /\ Len(rec'.devices) = Cardinality(DOMAIN deviceTags)
             \/ /\ budget'.faults < budget.faults
                /\ <<"ListDevices", "">> \in hist'.failed
                /\ rec'.pc = "sleep" /\ rec'.sweeps = rec.sweeps + 1]_vars
    /\ [][(rec.pc # "sleep" /\ budget'.faults < budget.faults) =>
             \/ rec'.pc = "sleep" /\ rec.idx = Len(rec.devices)
             \/ rec'.pc # "sleep" /\ rec'.idx \in {rec.idx, rec.idx + 1}
                    /\ rec'.devices = rec.devices]_vars
    /\ \A k \in 0..MaxSweeps :
           (rec.sweeps = k /\ budget.sweeps > 0) ~> (rec.sweeps = k + 1)

\* The query of d1's manager failed in the first sweep; the same sweep went
\* on to n2 and removed its stale grant tag and posture key.
C34_Witness ==
    /\ hist.failed = {<<"QueryActiveGrants", "d1">>}
    /\ rec.sweeps = 1
    /\ rec.pc = "sleep"
    /\ hist.initTags["n2"] = <<2, 3>>
    /\ deviceTags["n2"] = <<2>>
    /\ devicePosture["n2"] = {}

\* The status changes GrantWorkflow makes.
StatusMoves ==
    {<<StatusPendingApproval, StatusDenied>>, <<StatusPendingApproval, StatusActive>>,
     <<StatusActive, StatusExpired>>, <<StatusActive, StatusRevoked>>}

\* C35: the status moves only from PendingApproval to Denied or Active and
\* from Active to Expired or Revoked, so Denied, Expired and Revoked are
\* final; revokedBy and revokedAt are set exactly when the status is
\* Revoked; expiresAt changes only in a step that ends with the status
\* Active; and an activated grant whose expiry lies within the horizon
\* reaches Expired or Revoked.
C35_StatusMoves ==
    /\ [][\A g \in Grants :
            /\ state'[g].status # state[g].status =>
                   <<state[g].status, state'[g].status>> \in StatusMoves
            /\ state'[g].expiresAt # state[g].expiresAt =>
                   state'[g].status = StatusActive
            /\ state[g].status = StatusRevoked =>
                   /\ state'[g].revokedBy = state[g].revokedBy
                   /\ state'[g].revokedAt = state[g].revokedAt]_vars
    /\ [](\A g \in Grants :
            /\ state[g].status = StatusRevoked <=> state[g].revokedBy # ""
            /\ state[g].status = StatusRevoked <=> state[g].revokedAt # NoTime
            /\ lpc[g] \in {"revert", "return", "done"} =>
                   state[g].status \in {StatusDenied, StatusExpired, StatusRevoked})
    /\ \A g \in Grants :
           (lpc[g] = "active") ~>
               \/ state[g].status \in {StatusExpired, StatusRevoked}
               \/ state[g].expiresAt > MaxTime

\* A grant that was activated, then extended, then revoked at time 1.
C35_Witness ==
    /\ state["g1"].status = StatusRevoked
    /\ state["g1"].revokedBy = "a@x"
    /\ state["g1"].revokedAt = 1
    /\ state["g1"].expiresAt # state["g1"].activatedAt + req["g1"].duration
    /\ lpc["g1"] = "done"

\* C36: once every user grant has completed, none of their revert
\* activities having failed, the user has the role held before the first of
\* them was activated, also when user_role grants on the same user
\* overlapped.
C36_RoleRestored ==
    ((\A g \in Grants : lpc[g] = "done") /\ hist.failed = {}) =>
        \A u \in Users : user[u].role = RoleMember

\* C37: while a user_restore grant for a user is Active, the user is not
\* suspended.
C37_NoSuspendWhileRestored ==
    \A g \in Grants :
        (req[g].grantType.action = ActionUserRestore
             /\ state[g].status = StatusActive) =>
            user[req[g].targetUserID].status # UserSuspended

\* A Revoke that reached the lifecycle of g before its activation waits.
EarlyRevoke(g) ==
    /\ g \in hist.earlyRevoke
    /\ revokeCh[g] # <<>>
    /\ state[g].revokedBy = ""

\* C38: a Revoke delivered before activation stays buffered; once the grant
\* is Active it is taken before the timer and before any pending Extend,
\* the grant ends Revoked and its revert runs; a denied grant is not
\* touched by it.
C38_EarlyRevokeKept ==
    /\ [][\A g \in Grants :
            /\ (EarlyRevoke(g) /\ state'[g].status # state[g].status) =>
                   state'[g].status \in {StatusActive, StatusRevoked, StatusDenied}
            /\ (EarlyRevoke(g) /\ lpc'[g] \notin {"done", "failed"}) =>
                   \/ state'[g].status = StatusRevoked
                   \/ /\ Len(revokeCh'[g]) >= Len(revokeCh[g])
                      /\ \A i \in DOMAIN revokeCh[g] : revokeCh'[g][i] = revokeCh[g][i]
            /\ EarlyRevoke(g) => Len(extendCh'[g]) >= Len(extendCh[g])]_vars
    /\ [](\A g \in Grants :
            state[g].status = StatusDenied =>
                /\ state[g].revokedBy = ""
                /\ hist.removeSent[g] = 0
                /\ lpc[g] = "done")
    /\ \A g \in Grants :
           (lpc[g] = "active" /\ EarlyRevoke(g)) ~>
               /\ state[g].status = StatusRevoked
               /\ state[g].revokedAt = state[g].activatedAt
               /\ state[g].revokedAt < state[g].expiresAt
               /\ lpc[g] = "done"
               /\ hist.removeSent[g] = 1

\* A gated grant was revoked while it waited for approval: once approved
\* it ended Revoked at the time it was activated, before its expiry.
C38_Witness ==
    /\ req["g1"].grantType.riskLevel = RiskHigh
    /\ "g1" \in hist.earlyRevoke
    /\ state["g1"].approvedBy = "a@x"
    /\ state["g1"].status = StatusRevoked
    /\ state["g1"].revokedAt = state["g1"].activatedAt
    /\ state["g1"].revokedAt < state["g1"].expiresAt
    /\ lpc["g1"] = "done"
    /\ hist.removeSent["g1"] = 1

-----------------------------------------------------------------------------
(* A Sync followed by reconciler sweeps, with nothing else going on *)

\* The manager of d1 holds the Active grant g1 (tag 1) and has a Sync to
\* process; the device carries any mix of g1's tag and the grant-managed
\* tag 3 that no active grant claims, and any posture attributes. The
\* tailnet has a second device, n2, without tags and without a manager,
\* which may be the one the grant was requested from.
InitConverge ==
    /\ now = 0
    /\ req \in {[g \in Grants |-> IF g = "g1" THEN PostureRequest("g1", q, n)
                                  ELSE NoRequest] :
                   q \in {l \in PostureLists : Len(l) <= 1}, n \in {"", "n2"}}
    /\ lpc = [g \in Grants |-> IF req[g].id = "" THEN "absent" ELSE "active"]
    /\ state = [g \in Grants |->
                   IF req[g].id = "" THEN GrantState0
                   ELSE [GrantState0 EXCEPT !.status = StatusActive,
                                            !.activatedAt = 0,
                                            !.expiresAt = MaxDur]]
    /\ timer = [g \in Grants |-> IF lpc[g] = "active" THEN MaxDur ELSE NoTime]
    /\ mgr = [n \in Nodes |->
                 IF n \notin Devices THEN Mgr0
                 ELSE [Mgr0 EXCEPT
                          !.running = TRUE,
                          !.activeGrants =
                              [g \in {"g1"} |->
                                  [tags |-> req[g].grantType.tags,
                                   postureAttributes |->
                                       req[g].grantType.postureAttributes,
                                   requesterNodeID |-> req[g].requesterNode]],
                          !.syncCh = 1]]
    /\ revokeCh = [g \in Grants |-> <<>>]
    /\ extendCh = [g \in Grants |-> <<>>]
    /\ gate = [g \in Grants |-> Gate0]
    /\ \E tags \in {<<>>, <<1>>, <<3>>, <<1, 3>>} :
          deviceTags = [n \in Nodes |-> IF n \in Devices THEN tags ELSE <<>>]
    /\ devicePosture \in [Nodes -> SUBSET (PostureKeys \cup {KeyNode})]
    /\ rec = Rec0
    /\ user = User0
    /\ budget = [approving |-> {}, signals |-> 0, external |-> 0, sweeps |-> MaxSweeps + 1,
                 horizon |-> 0, workers |-> 0, faults |-> 0]
    /\ hist = [Hist0 EXCEPT !.initTags = deviceTags,
                            !.initPosture = devicePosture,
                            !.addDelivered =
                                [g \in Grants |-> IF req[g].id = "" THEN 0 ELSE 1],
                            !.mgrStale = [n \in Nodes |-> FALSE],
                            !.recStale = [n \in Nodes |-> FALSE],
                            !.order = [n \in Nodes |->
                                          IF n \in Devices THEN <<"sync">> ELSE <<>>]]

NextConverge ==
    \/ NextSync
    \/ RecListDevices
    \/ RecGetPosture
    \/ RecProbe
    \/ RecReprobe
    \/ RecDeletePosture
    \/ RecQuery
    \/ RecSignalSync

SpecConverge == InitConverge /\ [][NextConverge]_vars

\* C39: once the manager has processed its Sync and is idle again, a sweep
\* that has seen the device as the Sync left it (the listed tags and the
\* observed posture keys are the device's) finds no drift when it queries
\* the manager and goes on to no further Sync.
C39_SyncConverges ==
    [][\A d \in Devices :
          (/\ rec.pc = "query"
           /\ RecDevice = d
           /\ MgrIdle(d)
           /\ rec.devices[rec.idx].tags = deviceTags[d]
           /\ rec.stalePostureKeys = devicePosture[d] \cap allPostureKeys)
              => rec'.pc # "signal"]_vars

-----------------------------------------------------------------------------
(* Two tag managers whose grants share a requester device *)

\* The device both grants were requested from.
NodeRequester == "n3"

\* g1 targets d1 and g2 targets n2, both requested from n3, each with its
\* own posture attributes.
SharedRequests ==
    {[g \in Grants |->
         [PostureRequest(g, IF g = "g1" THEN q1 ELSE q2, NodeRequester)
             EXCEPT !.targetNodeID = IF g = "g1" THEN "d1" ELSE "n2"]] :
        q1 \in PostureLists, q2 \in PostureLists}

\* Both grants were activated, each held by the manager of its target
\* device, and their posture attributes are set; one grant has just been
\* revoked and its RemoveGrant waits in its manager's channel.
InitShared ==
    /\ now = 0
    /\ req \in SharedRequests
    /\ \E gone \in Grants :
          /\ lpc = [g \in Grants |-> IF g = gone THEN "done" ELSE "active"]
          /\ state = [g \in Grants |->
                         IF g = gone
                         THEN [GrantState0 EXCEPT !.status = StatusRevoked,
                                                  !.activatedAt = 0,
                                                  !.expiresAt = MaxDur,
                                                  !.revokedBy = "a@x",
                                                  !.revokedAt = 0]
                         ELSE [GrantState0 EXCEPT !.status = StatusActive,
                                                  !.activatedAt = 0,
                                                  !.expiresAt = MaxDur]]
          /\ mgr = [n \in Nodes |->
                       [Mgr0 EXCEPT
                           !.running = TRUE,
                           !.activeGrants =
                               [g \in {h \in Grants : req[h].targetNodeID = n} |->
                                   [tags |-> req[g].grantType.tags,
                                    postureAttributes |->
                                        req[g].grantType.postureAttributes,
                                    requesterNodeID |-> req[g].requesterNode]],
                           !.removeCh = IF req[gone].targetNodeID = n
                                        THEN <<gone>> ELSE <<>>]]
          /\ hist = [Hist0 EXCEPT
                        !.initTags = [n \in Nodes |-> <<1>>],
                        !.mgrStale = [n \in Nodes |-> FALSE],
                        !.recStale = [n \in Nodes |-> FALSE],
                        !.addDelivered = [g \in Grants |-> 1],
                        !.removeSent = [g \in Grants |-> IF g = gone THEN 1 ELSE 0],
                        !.order = [n \in Nodes |->
                                      IF req[gone].targetNodeID = n
                                      THEN <<"remove">> ELSE <<>>]]
    /\ timer = [g \in Grants |-> IF lpc[g] = "active" THEN MaxDur ELSE NoTime]
    /\ revokeCh = [g \in Grants |-> <<>>]
    /\ extendCh = [g \in Grants |-> <<>>]
    /\ gate = [g \in Grants |-> Gate0]
    /\ deviceTags = [n \in Nodes |-> <<1>>]
    /\ devicePosture = [n \in Nodes \cup {NodeRequester} |->
                           {k \in PostureKeys :
                               \E g \in Grants : <<n, k>> \in GrantPairs(g)}]
    /\ rec = Rec0
    /\ user = User0
    /\ budget = [approving |-> {}, signals |-> 0, external |-> 0, sweeps |-> 0, horizon |-> 0,
                 workers |-> 0, faults |-> 0]

NextShared ==
    \E n \in Nodes :
        \/ MgrRemove(n)
        \/ MgrGetTags(n)
        \/ MgrSetTags(n)
        \/ MgrPosture(n)
        \/ MgrLoopEnd(n)

SpecShared == InitShared /\ [][NextShared]_vars

\* C40: a requester-scoped posture attribute of an Active grant is set on
\* the requester's device, whichever manager holds the grant and whatever
\* other grant claiming the same (requester device, key) pair is removed.
C40_RequesterAttributeKept ==
    \A g \in Grants :
        state[g].status = StatusActive =>
            \A pa \in Range(req[g].grantType.postureAttributes) :
                (pa.target = "requester" /\ req[g].requesterNode # "") =>
                    pa.key \in devicePosture[req[g].requesterNode]

====
